---- MODULE Spec2Model ----
(***************************************************************************)
(* A model of the evaluation / minimisation engine of ttt:                 *)
(*   src/eval/mod.rs          Variables, EvaluationError                   *)
(*   src/eval/truth_table.rs  generate_truth_table, evaluate_expression    *)
(*   src/eval/equivalence.rs  check_equivalence                            *)
(*   src/eval/reduction.rs    Minterm, QuineMcCluskey, reduce_expression   *)
(* A variable name is the sequence of the code points of its characters;   *)
(* an expression tree is a record tagged by the Expr variant.              *)
(***************************************************************************)
EXTENDS Integers, Sequences, FiniteSets, TLC

(***************************************************************************)
(* Program constants (src/config.rs) and machine facts.                    *)
(***************************************************************************)
MAX_VARIABLES == 20
MAX_VARIABLE_NAME_LENGTH == 50
\* width of the integer type inferred for `1 << num_vars` and the row index
\* in truth_table.rs / equivalence.rs (no usize constraint: i32)
I32_BITS == 32

(***************************************************************************)
(* Bounds of the model.                                                    *)
(***************************************************************************)
\* generic trees have at most MaxNodes operator nodes
MaxNodes == 2
\* sum-of-products input trees have at most MaxTerms product terms
MaxTerms == 3
\* the widest union of variables handed to check_equivalence is
\* I32_BITS - 1 + MaxWideExtra names
MaxWideExtra == 2
\* every token sequence of at most MaxTokens tokens (before Eof) is parsed
MaxTokens == 4
\* the vectors handed to Minterm::combine directly have at most MaxBits positions
MaxBits == 2

(***************************************************************************)
(* Small arithmetic helpers.                                               *)
(***************************************************************************)
RECURSIVE Pow2(_)
Pow2(n) == IF n = 0 THEN 1 ELSE 2 * Pow2(n - 1)

\* (i >> p) & 1 == 1 for a non-negative i and a shift amount below the
\* width of the type of i
BitSet(i, p) == ((i \div Pow2(p)) % 2) = 1

\* the shift with its operands exchanged: n << 1
I32Shl1_operands_swapped(n, build) == [panic |-> FALSE, value |-> 2 * n]

\* `1 << n` on an i32: the shift amount is in range up to 31 (and 1 << 31 is
\* i32::MIN); beyond that a build with overflow checks panics and a build
\* without them masks the shift amount to the width of the type
I32Shl1(n, build) ==
    IF n < I32_BITS - 1 THEN [panic |-> FALSE, value |-> Pow2(n)]
    ELSE IF n = I32_BITS - 1 THEN [panic |-> FALSE, value |-> (-Pow2(I32_BITS - 2)) * 2]
    ELSE IF build = "debug" THEN [panic |-> TRUE, value |-> 0]
    ELSE [panic |-> FALSE, value |-> Pow2(n % I32_BITS)]

\* (i >> p) & 1 == 1 on an i32 row index 0 <= i < 2^31: a shift amount of
\* I32_BITS or more is met only by a build without overflow checks (the
\* other build has panicked in `1 << n` before), which masks it
I32BitSet(i, p) ==
    LET amount == p % I32_BITS
    IN  IF amount = I32_BITS - 1 THEN FALSE ELSE BitSet(i, amount)

RECURSIVE SeqSum(_)
SeqSum(s) == IF s = <<>> THEN 0 ELSE Head(s) + SeqSum(Tail(s))

Range(s) == {s[i] : i \in 1..Len(s)}

(***************************************************************************)
(* Strings.  A String is a sequence of code points; len() is the UTF-8     *)
(* byte length, chars() the code points, Ord the lexicographic order.      *)
(***************************************************************************)
Utf8Len(c) == IF c < 128 THEN 1 ELSE IF c < 2048 THEN 2 ELSE IF c < 65536 THEN 3 ELSE 4

\* String::len
ByteLen(name) == SeqSum([i \in 1..Len(name) |-> Utf8Len(name[i])])

\* char::is_alphanumeric on the alphabet of the model: ASCII digits and
\* letters, and U+00E9 (a two-byte alphabetic character)
IsAlphanumeric(c) == c \in (48..57) \cup (65..90) \cup (97..122) \cup {233}

\* <String as Ord>::lt
RECURSIVE StrLess(_, _)
StrLess(s, t) ==
    IF t = <<>> THEN FALSE
    ELSE IF s = <<>> THEN TRUE
    ELSE IF Head(s) # Head(t) THEN Head(s) < Head(t)
    ELSE StrLess(Tail(s), Tail(t))

(***************************************************************************)
(* Expr (src/source/parser.rs)                                             *)
(***************************************************************************)
Identifier(n) == [op |-> "Identifier", name |-> n]
Not(x) == [op |-> "Not", e |-> x]
And(a, b) == [op |-> "And", l |-> a, r |-> b]
Or(a, b) == [op |-> "Or", l |-> a, r |-> b]
Xor(a, b) == [op |-> "Xor", l |-> a, r |-> b]
Implication(a, b) == [op |-> "Implication", l |-> a, r |-> b]

BinaryOps == {"And", "Or", "Xor", "Implication"}
Binary(o, a, b) == [op |-> o, l |-> a, r |-> b]

(***************************************************************************)
(* Variables (src/eval/mod.rs): a BTreeSet<String>, kept as the strictly   *)
(* increasing sequence of its elements (its iteration order).              *)
(***************************************************************************)
\* BTreeSet::insert
BTreeInsert(names, name) ==
    IF name \in Range(names) THEN names
    ELSE LET k == Cardinality({i \in 1..Len(names) : StrLess(names[i], name)})
         IN  [i \in 1..(Len(names) + 1) |->
                 IF i <= k THEN names[i]
                 ELSE IF i = k + 1 THEN name
                 ELSE names[i - 1]]

\* the validity test of collect_from_expr on one identifier
NameRejected(name) ==
    \/ name = <<>>
    \/ ByteLen(name) > MAX_VARIABLE_NAME_LENGTH
    \/ \E i \in 1..Len(name) : ~(IsAlphanumeric(name[i]) \/ name[i] = 95)

NoError == [kind |-> "Ok"]
InvalidVariableName(name) == [kind |-> "InvalidVariableName", name |-> name]
TooManyVariables(count, max) == [kind |-> "TooManyVariables", count |-> count, max |-> max]

\* the right operand of a binary node visited before the left one
RECURSIVE collect_from_expr_right_first(_, _)
collect_from_expr_right_first(st, expr) ==
    IF st.err # NoError THEN st
    ELSE IF expr.op = "Identifier" THEN
        IF NameRejected(expr.name)
        THEN [st EXCEPT !.err = InvalidVariableName(expr.name)]
        ELSE LET ins == BTreeInsert(st.names, expr.name)
             IN  IF Len(ins) > MAX_VARIABLES
                 THEN [names |-> ins, err |-> TooManyVariables(Len(ins), MAX_VARIABLES)]
                 ELSE [names |-> ins, err |-> NoError]
    ELSE IF expr.op = "Not" THEN collect_from_expr_right_first(st, expr.e)
    ELSE collect_from_expr_right_first(collect_from_expr_right_first(st, expr.r), expr.l)

\* Variables::collect_from_expr; st is (self.names, the Result so far):
\* `?` returns at the first Err without visiting the rest
RECURSIVE collect_from_expr(_, _)
collect_from_expr(st, expr) ==
    IF st.err # NoError THEN st
    ELSE IF expr.op = "Identifier" THEN
        IF NameRejected(expr.name)
        THEN [st EXCEPT !.err = InvalidVariableName(expr.name)]
        ELSE LET ins == BTreeInsert(st.names, expr.name)
             IN  IF Len(ins) > MAX_VARIABLES
                 THEN [names |-> ins, err |-> TooManyVariables(Len(ins), MAX_VARIABLES)]
                 ELSE [names |-> ins, err |-> NoError]
    ELSE IF expr.op = "Not" THEN collect_from_expr(st, expr.e)
    ELSE collect_from_expr(collect_from_expr(st, expr.l), expr.r)

\* Variables::from_expr: Ok(vars) or Err(e)
from_expr(expr) ==
    LET st == collect_from_expr([names |-> <<>>, err |-> NoError], expr)
    IN  IF st.err = NoError THEN [ok |-> TRUE, names |-> st.names]
        ELSE [ok |-> FALSE, err |-> st.err]

\* Variables::union (BTreeSet union, collected into a BTreeSet)
RECURSIVE union(_, _)
union(a, b) == IF b = <<>> THEN a ELSE union(BTreeInsert(a, Head(b)), Tail(b))

(***************************************************************************)
(* evaluate_expression (src/eval/truth_table.rs); an assignment is a       *)
(* function from a set of names to BOOLEAN (a HashMap<String, bool>).      *)
(***************************************************************************)
\* a name missing from the assignment taken as true
RECURSIVE evaluate_expression_missing_true(_, _)
evaluate_expression_missing_true(expr, assignments) ==
    CASE expr.op = "Identifier" ->
            IF expr.name \in DOMAIN assignments THEN assignments[expr.name] ELSE TRUE
      [] expr.op = "Not" -> ~evaluate_expression_missing_true(expr.e, assignments)
      [] expr.op = "And" ->
            /\ evaluate_expression_missing_true(expr.l, assignments)
            /\ evaluate_expression_missing_true(expr.r, assignments)
      [] expr.op = "Or" ->
            \/ evaluate_expression_missing_true(expr.l, assignments)
            \/ evaluate_expression_missing_true(expr.r, assignments)
      [] expr.op = "Xor" ->
            evaluate_expression_missing_true(expr.l, assignments)
                # evaluate_expression_missing_true(expr.r, assignments)
      [] expr.op = "Implication" ->
            \/ ~evaluate_expression_missing_true(expr.l, assignments)
            \/ evaluate_expression_missing_true(expr.r, assignments)

RECURSIVE evaluate_expression(_, _)
evaluate_expression(expr, assignments) ==
    CASE expr.op = "Identifier" ->
            IF expr.name \in DOMAIN assignments THEN assignments[expr.name] ELSE FALSE
      [] expr.op = "Not" -> ~evaluate_expression(expr.e, assignments)
      [] expr.op = "And" ->
            evaluate_expression(expr.l, assignments) /\ evaluate_expression(expr.r, assignments)
      [] expr.op = "Or" ->
            evaluate_expression(expr.l, assignments) \/ evaluate_expression(expr.r, assignments)
      [] expr.op = "Xor" ->
            evaluate_expression(expr.l, assignments) # evaluate_expression(expr.r, assignments)
      [] expr.op = "Implication" ->
            (~evaluate_expression(expr.l, assignments)) \/ evaluate_expression(expr.r, assignments)

EmptyAssignment == [n \in {} |-> FALSE]

\* the most significant bit first: variable at index var_idx gets
\* (i >> (num_vars - 1 - var_idx)) & 1
LsbAssignment_msb_first(names, i) ==
    [n \in Range(names) |->
        LET var_idx == (CHOOSE p \in 1..Len(names) : names[p] = n) - 1
        IN  I32BitSet(i, Len(names) - 1 - var_idx)]

\* the assignment built from bit pattern i in truth_table.rs and
\* equivalence.rs: variable at index var_idx gets (i >> var_idx) & 1
LsbAssignment(names, i) ==
    [n \in Range(names) |->
        LET var_idx == (CHOOSE p \in 1..Len(names) : names[p] = n) - 1
        IN  I32BitSet(i, var_idx)]

\* the assignment built in reduction.rs: variable at index j gets
\* (i >> (num_vars - 1 - j)) & 1
MsbAssignment(names, i) ==
    [n \in Range(names) |->
        LET j == (CHOOSE p \in 1..Len(names) : names[p] = n) - 1
        IN  BitSet(i, Len(names) - 1 - j)]

Err(e) == [status |-> "Err", err |-> e]
Panicked == [status |-> "Panic"]

\* generate_truth_table
generate_truth_table(expr, build) ==
    LET v == from_expr(expr)
    IN  IF ~v.ok THEN Err(v.err)
        ELSE LET num_vars == Len(v.names)
             IN  IF num_vars = 0
                 THEN [status |-> "Ok", variables |-> v.names,
                       rows |-> << [assignments |-> EmptyAssignment,
                                    result |-> evaluate_expression(expr, EmptyAssignment)] >>]
                 ELSE LET num_combinations == I32Shl1(num_vars, build)
                      IN  IF num_combinations.panic THEN Panicked
                          ELSE [status |-> "Ok", variables |-> v.names,
                                rows |-> [k \in 1..num_combinations.value |->
                                    LET assignments == LsbAssignment(v.names, k - 1)
                                    IN  [assignments |-> assignments,
                                         result |-> evaluate_expression(expr, assignments)]]]

(***************************************************************************)
(* check_equivalence (src/eval/equivalence.rs)                             *)
(***************************************************************************)
\* the two results stored in each other's field
equivalence_row_values_swapped(left, right, all_vars, i) ==
    LET assignments == LsbAssignment(all_vars, i)
    IN  [assignment |-> assignments,
         left_value |-> evaluate_expression(right, assignments),
         right_value |-> evaluate_expression(left, assignments)]

\* the right tree evaluated under the most-significant-bit-first assignment
\* of reduction.rs
equivalence_row_right_msb_first(left, right, all_vars, i) ==
    [assignment |-> LsbAssignment(all_vars, i),
     left_value |-> evaluate_expression(left, LsbAssignment(all_vars, i)),
     right_value |-> evaluate_expression(right, MsbAssignment(all_vars, i))]

\* the comparison made for row i of the loop
equivalence_row(left, right, all_vars, i) ==
    LET assignments == LsbAssignment(all_vars, i)
    IN  [assignment |-> assignments,
         left_value |-> evaluate_expression(left, assignments),
         right_value |-> evaluate_expression(right, assignments)]

RowDiffers(row) == row.left_value # row.right_value

\* the right tree validated before the left one
check_equivalence_right_first(left, right, build) ==
    LET right_vars == from_expr(right)
    IN  IF ~right_vars.ok THEN Err(right_vars.err)
        ELSE
    LET left_vars == from_expr(left)
    IN  IF ~left_vars.ok THEN Err(left_vars.err)
        ELSE
    LET all_vars == union(left_vars.names, right_vars.names)
        num_vars == Len(all_vars)
    IN  IF num_vars = 0
        THEN LET row == [assignment |-> EmptyAssignment,
                         left_value |-> evaluate_expression(left, EmptyAssignment),
                         right_value |-> evaluate_expression(right, EmptyAssignment)]
             IN  [status |-> "Ok",
                  equivalent |-> (row.left_value = row.right_value),
                  variables |-> all_vars,
                  differences |-> IF RowDiffers(row) THEN <<row>> ELSE <<>>]
        ELSE
    LET num_combinations == I32Shl1(num_vars, build)
    IN  IF num_combinations.panic THEN Panicked
        ELSE
    LET differences ==
            SelectSeq([k \in 1..num_combinations.value |->
                          equivalence_row(left, right, all_vars, k - 1)],
                      RowDiffers)
    IN  [status |-> "Ok",
         equivalent |-> (differences = <<>>),
         variables |-> all_vars,
         differences |-> differences]

\* check_equivalence
check_equivalence(left, right, build) ==
    LET left_vars == from_expr(left)
    IN  IF ~left_vars.ok THEN Err(left_vars.err)
        ELSE
    LET right_vars == from_expr(right)
    IN  IF ~right_vars.ok THEN Err(right_vars.err)
        ELSE
    LET all_vars == union(left_vars.names, right_vars.names)
        num_vars == Len(all_vars)
    IN  IF num_vars = 0
        THEN LET row == [assignment |-> EmptyAssignment,
                         left_value |-> evaluate_expression(left, EmptyAssignment),
                         right_value |-> evaluate_expression(right, EmptyAssignment)]
             IN  [status |-> "Ok",
                  equivalent |-> (row.left_value = row.right_value),
                  variables |-> all_vars,
                  differences |-> IF RowDiffers(row) THEN <<row>> ELSE <<>>]
        ELSE
    LET num_combinations == I32Shl1(num_vars, build)
    IN  IF num_combinations.panic THEN Panicked
        ELSE
    LET differences ==
            SelectSeq([k \in 1..num_combinations.value |->
                          equivalence_row(left, right, all_vars, k - 1)],
                      RowDiffers)
    IN  [status |-> "Ok",
         equivalent |-> (differences = <<>>),
         variables |-> all_vars,
         differences |-> differences]

(***************************************************************************)
(* Sequence helpers for the Vec manipulations of reduction.rs.             *)
(***************************************************************************)
SetMin(S) == CHOOSE m \in S : \A x \in S : m <= x

\* Op applied to the value of v, a `let` of the source: the bound variable of
\* a set constructor holds a value, and the comparison makes TLC hold a
\* function as the table of its values, so v is evaluated once however often
\* Op refers to it, also where TLC evaluates ENABLED
Let(v, Op(_)) == CHOOSE r \in {Op(x) : x \in {y \in {v} : y = y}} : TRUE

\* the elements of a finite set of integers in increasing order
IndexSeq(S) ==
    [t \in 1..Cardinality(S) |-> CHOOSE m \in S : Cardinality({x \in S : x < m}) = t - 1]

Reversed(s) == [i \in 1..Len(s) |-> s[Len(s) + 1 - i]]

\* Vec::remove(idx) with a 1-based idx
RemoveAt(s, idx) == [k \in 1..(Len(s) - 1) |-> IF k < idx THEN s[k] ELSE s[k + 1]]

\* nothing dropped
dedup_keeps_all(s) == s

\* Vec::dedup: drops every element equal to its predecessor
dedup(s) ==
    Let({i \in 1..Len(s) : i = 1 \/ s[i] # s[i - 1]}, LAMBDA kept :
        [t \in 1..Cardinality(kept) |->
            s[CHOOSE i \in kept : Cardinality({j \in kept : j < i}) = t - 1]])

(***************************************************************************)
(* Minterm (src/eval/reduction.rs): bits is a Vec<Option<bool>>.           *)
(***************************************************************************)
None == "None"
Some(b) == IF b THEN "Some(true)" ELSE "Some(false)"

\* derived Ord of Option<bool>: None < Some(false) < Some(true)
OptRank(x) == IF x = None THEN 0 ELSE IF x = Some(FALSE) THEN 1 ELSE 2

\* Vec<Option<bool>>::cmp(..) == Less
RECURSIVE BitsLess(_, _)
BitsLess(a, b) ==
    IF b = <<>> THEN FALSE
    ELSE IF a = <<>> THEN TRUE
    ELSE IF Head(a) # Head(b) THEN OptRank(Head(a)) < OptRank(Head(b))
    ELSE BitsLess(Tail(a), Tail(b))

\* bit i of the vector taken from bit i of the index
Minterm_new_lsb_first(minterm_index, num_vars) ==
    [bits |-> [k \in 1..num_vars |-> Some(BitSet(minterm_index, k - 1))],
     covered_minterms |-> {minterm_index}]

\* Minterm::new: bit i of the vector is (minterm_index >> (num_vars - 1 - i)) & 1
Minterm_new(minterm_index, num_vars) ==
    [bits |-> [k \in 1..num_vars |-> Some(BitSet(minterm_index, num_vars - 1 - (k - 1)))],
     covered_minterms |-> {minterm_index}]

\* Minterm::count_ones
count_ones(m) == Cardinality({k \in 1..Len(m.bits) : m.bits[k] = Some(TRUE)})

NoMinterm == [some |-> FALSE]

\* a DontCare against a literal taken for a position that differs
combine_dont_care_differs(self, other) ==
    IF Len(self.bits) # Len(other.bits) THEN NoMinterm
    ELSE LET n == Len(self.bits)
             diff == {k \in 1..n : self.bits[k] # other.bits[k]}
         IN  IF Cardinality(diff) # 1 THEN NoMinterm
             ELSE [some |-> TRUE,
                   value |-> [bits |-> [k \in 1..n |-> IF k \in diff THEN None ELSE self.bits[k]],
                              covered_minterms |->
                                  self.covered_minterms \cup other.covered_minterms]]

\* Minterm::combine
combine(self, other) ==
    IF Len(self.bits) # Len(other.bits) THEN NoMinterm
    ELSE LET n == Len(self.bits)
             mixed == {k \in 1..n : (self.bits[k] = None) # (other.bits[k] = None)}
             diff == {k \in 1..n : /\ self.bits[k] # None
                                   /\ other.bits[k] # None
                                   /\ self.bits[k] # other.bits[k]}
         IN  IF mixed # {} \/ Cardinality(diff) # 1 THEN NoMinterm
             ELSE [some |-> TRUE,
                   value |-> [bits |-> [k \in 1..n |-> IF k \in diff THEN None ELSE self.bits[k]],
                              covered_minterms |->
                                  self.covered_minterms \cup other.covered_minterms]]

NoExpr == [some |-> FALSE]
SomeExpr(e) == [some |-> TRUE, value |-> e]

\* result = terms[0]; for term in terms.skip(1) { result = op(result, term) }
RECURSIVE FoldTerms(_, _, _)
FoldTerms(o, acc, rest) ==
    IF rest = <<>> THEN acc ELSE FoldTerms(o, Binary(o, acc, Head(rest)), Tail(rest))

\* bit i taken to speak of the variable at position i from the end
to_expression_reversed(m, variables) ==
    LET var_vec == Reversed(variables)
        lits == IndexSeq({k \in 1..Len(m.bits) : m.bits[k] # None})
        terms == [t \in 1..Len(lits) |->
                     IF m.bits[lits[t]] = Some(TRUE)
                     THEN Identifier(var_vec[lits[t]])
                     ELSE Not(Identifier(var_vec[lits[t]]))]
    IN  IF terms = <<>> THEN NoExpr
        ELSE SomeExpr(FoldTerms("And", terms[1], Tail(terms)))

\* Some(true) turned into the negated identifier and Some(false) into the
\* identifier
to_expression_literals_flipped(m, variables) ==
    LET var_vec == variables
        lits == IndexSeq({k \in 1..Len(m.bits) : m.bits[k] # None})
        terms == [t \in 1..Len(lits) |->
                     IF m.bits[lits[t]] = Some(FALSE)
                     THEN Identifier(var_vec[lits[t]])
                     ELSE Not(Identifier(var_vec[lits[t]]))]
    IN  IF terms = <<>> THEN NoExpr
        ELSE SomeExpr(FoldTerms("And", terms[1], Tail(terms)))

\* Minterm::to_expression: bit i speaks of var_vec[i]
to_expression(m, variables) ==
    LET var_vec == variables
        lits == IndexSeq({k \in 1..Len(m.bits) : m.bits[k] # None})
        terms == [t \in 1..Len(lits) |->
                     IF m.bits[lits[t]] = Some(TRUE)
                     THEN Identifier(var_vec[lits[t]])
                     ELSE Not(Identifier(var_vec[lits[t]]))]
    IN  IF terms = <<>> THEN NoExpr
        ELSE SomeExpr(FoldTerms("And", terms[1], Tail(terms)))

(***************************************************************************)
(* QuineMcCluskey (src/eval/reduction.rs)                                  *)
(***************************************************************************)
\* QuineMcCluskey::from_expression
from_expression(expr) ==
    LET v == from_expr(expr)
    IN  IF ~v.ok THEN [ok |-> FALSE, err |-> v.err]
        ELSE LET num_vars == Len(v.names)
             IN  [ok |-> TRUE,
                  variables |-> v.names,
                  minterms |-> {i \in 0..(Pow2(num_vars) - 1) :
                                   evaluate_expression(expr, MsbAssignment(v.names, i))}]

\* the pairs (i, j) of one round of find_prime_implicants for which combine
\* succeeds: i in the group of k ones, j in the group of k + 1 ones
CombinablePairs(cur) ==
    {p \in (1..Len(cur)) \X (1..Len(cur)) :
        /\ count_ones(cur[p[2]]) = count_ones(cur[p[1]]) + 1
        /\ combine(cur[p[1]], cur[p[2]]).some}

\* the order in which the nested loops meet the pairs: groups by increasing
\* number of ones, then i, then j in index order
PairBefore(cur, p, q) ==
    LET cp == count_ones(cur[p[1]])
        cq == count_ones(cur[q[1]])
    IN  \/ cp < cq
        \/ cp = cq /\ p[1] < q[1]
        \/ cp = cq /\ p[1] = q[1] /\ p[2] < q[2]

\* the pairs of S in the order PairBefore
PairSeq(cur, S) ==
    Let([p \in S |-> Cardinality({q \in S : PairBefore(cur, q, p)})], LAMBDA before :
        [t \in 1..Cardinality(S) |-> CHOOSE p \in S : before[p] = t - 1])

\* next_implicants.sort_by(|a, b| a.bits.cmp(&b.bits)): a stable sort, so an
\* element comes after the smaller ones and after the equal ones before it
sort_by_bits(s) ==
    Let([i \in 1..Len(s) |->
            Cardinality({j \in 1..Len(s) :
                            \/ BitsLess(s[j].bits, s[i].bits)
                            \/ j < i /\ s[j].bits = s[i].bits}) + 1], LAMBDA place :
        [p \in 1..Len(s) |-> s[CHOOSE i \in 1..Len(s) : place[i] = p]])

\* used[i] set, used[j] left alone
prime_round_marks_first_only(current_implicants) ==
    Let(CombinablePairs(current_implicants), LAMBDA pairs :
    Let(PairSeq(current_implicants, pairs), LAMBDA order :
    Let([t \in 1..Len(order) |->
            combine(current_implicants[order[t][1]],
                    current_implicants[order[t][2]]).value], LAMBDA pushed :
    Let({p[1] : p \in pairs}, LAMBDA used :
    Let(IndexSeq((1..Len(current_implicants)) \ used), LAMBDA unused :
    Let(sort_by_bits(pushed), LAMBDA sorted :
        [primes |-> [t \in 1..Len(unused) |-> current_implicants[unused[t]]],
         next |-> dedup(sorted)]))))))

\* one iteration of the while loop of find_prime_implicants
prime_round(current_implicants) ==
    Let(CombinablePairs(current_implicants), LAMBDA pairs :
    Let(PairSeq(current_implicants, pairs), LAMBDA order :
    Let([t \in 1..Len(order) |->
            combine(current_implicants[order[t][1]],
                    current_implicants[order[t][2]]).value], LAMBDA pushed :
    Let({p[1] : p \in pairs} \cup {p[2] : p \in pairs}, LAMBDA used :
    Let(IndexSeq((1..Len(current_implicants)) \ used), LAMBDA unused :
    Let(sort_by_bits(pushed), LAMBDA sorted :
        [primes |-> [t \in 1..Len(unused) |-> current_implicants[unused[t]]],
         next |-> dedup(sorted)]))))))

\* the first candidate left out of the filter
covering_implicants_skips_first(available, minterm) ==
    {idx \in 2..Len(available) : minterm \in available[idx].covered_minterms}

\* covering_implicants of the essential scan: the indices of the available
\* implicants that cover a minterm
covering_implicants(available, minterm) ==
    {idx \in 1..Len(available) : minterm \in available[idx].covered_minterms}

RECURSIVE RemoveAll(_, _)
RemoveAll(s, idxs) ==
    IF idxs = <<>> THEN s ELSE RemoveAll(RemoveAt(s, Head(idxs)), Tail(idxs))

\* for &idx in &to_remove { available_implicants.remove(idx) }: Vec::remove
\* panics when idx is not below the length the vector has at that moment
RECURSIVE RemovePanics(_, _)
RemovePanics(s, idxs) ==
    IF idxs = <<>> THEN FALSE
    ELSE \/ Head(idxs) \notin 1..Len(s)
         \/ RemovePanics(RemoveAt(s, Head(idxs)), Tail(idxs))

\* the indices sorted in increasing order
Descending_ascending(idxs) == IndexSeq(Range(idxs))

\* to_remove.sort_by(|a, b| b.cmp(a))
Descending(idxs) ==
    LET up == IndexSeq(Range(idxs))
    IN  [k \in 1..Len(up) |-> up[Len(up) + 1 - k]]

\* one iteration of the essential `loop` of find_minimal_cover
essential_pass(uncovered, selected, available) ==
    LET idx_of(m) == CHOOSE idx \in covering_implicants(available, m) : TRUE
    IN
    Let({m \in uncovered : Cardinality(covering_implicants(available, m)) = 1}, LAMBDA sole :
    \* the minterms, in scan order, at which an index is pushed to to_remove
    Let(IndexSeq({m \in sole : \A m2 \in sole : idx_of(m2) = idx_of(m) => m <= m2}),
        LAMBDA firsts :
    Let([t \in 1..Len(firsts) |-> idx_of(firsts[t])], LAMBDA to_remove :
    Let(UNION {available[to_remove[t]].covered_minterms : t \in 1..Len(to_remove)},
        LAMBDA covered_by_essential :
    Let(Descending(to_remove), LAMBDA sorted :
        [essential_found |-> to_remove # <<>>,
         uncovered |-> uncovered \ covered_by_essential,
         selected |-> selected \o [t \in 1..Len(to_remove) |-> available[to_remove[t]]],
         panic |-> RemovePanics(available, sorted),
         available |-> RemoveAll(available, sorted)])))))

\* the key of max_by_key in the greedy loop
greedy_key(uncovered, impl) == Cardinality(impl.covered_minterms \cap uncovered)

\* the first candidate whatever it covers
best_implicant_always_first(uncovered, available) == 1

\* Iterator::max_by_key: of several maximal elements the last is returned
best_implicant(uncovered, available) ==
    CHOOSE idx \in 1..Len(available) :
        \A j \in 1..Len(available) :
            /\ greedy_key(uncovered, available[j]) <= greedy_key(uncovered, available[idx])
            /\ j > idx => greedy_key(uncovered, available[j]) < greedy_key(uncovered, available[idx])

\* the picked candidate left in the list
greedy_step_keeps_candidate(uncovered, selected, available) ==
    Let(best_implicant(uncovered, available), LAMBDA idx :
        [uncovered |-> uncovered \ available[idx].covered_minterms,
         selected |-> Append(selected, available[idx]),
         available |-> available])

\* one iteration of the greedy while loop of find_minimal_cover
greedy_step(uncovered, selected, available) ==
    Let(best_implicant(uncovered, available), LAMBDA idx :
        [uncovered |-> uncovered \ available[idx].covered_minterms,
         selected |-> Append(selected, available[idx]),
         available |-> RemoveAt(available, idx)])

\* filter_map over a Vec of Option
RECURSIVE FilterSome(_)
FilterSome(s) ==
    IF s = <<>> THEN <<>>
    ELSE IF Head(s).some THEN <<Head(s).value>> \o FilterSome(Tail(s))
    ELSE FilterSome(Tail(s))

\* the terms joined from the last selected implicant to the first
implicants_to_expression_last_first(variables, implicants) ==
    IF implicants = <<>> THEN NoExpr
    ELSE Let([t \in 1..Len(implicants) |-> to_expression(implicants[t], variables)],
             LAMBDA options :
         Let(Reversed(FilterSome(options)), LAMBDA terms :
             IF terms = <<>> THEN NoExpr
             ELSE IF Len(terms) = 1 THEN SomeExpr(terms[1])
             ELSE SomeExpr(FoldTerms("Or", terms[1], Tail(terms)))))

\* QuineMcCluskey::implicants_to_expression
implicants_to_expression(variables, implicants) ==
    IF implicants = <<>> THEN NoExpr
    ELSE Let([t \in 1..Len(implicants) |-> to_expression(implicants[t], variables)],
             LAMBDA options :
         Let(FilterSome(options), LAMBDA terms :
             IF terms = <<>> THEN NoExpr
             ELSE IF Len(terms) = 1 THEN SomeExpr(terms[1])
             ELSE SomeExpr(FoldTerms("Or", terms[1], Tail(terms)))))

(***************************************************************************)
(* reduce_expression and its helpers (src/eval/reduction.rs)               *)
(***************************************************************************)
TrueSentinel == Or(Identifier(<<116, 114, 117, 101>>), Not(Identifier(<<116, 114, 117, 101>>)))
FalseSentinel ==
    And(Identifier(<<102, 97, 108, 115, 101>>), Not(Identifier(<<102, 97, 108, 115, 101>>)))

\* the last assignment (every variable true) left out of the loop
is_tautology_skips_last(expr) ==
    LET v == from_expr(expr)
    IN  IF ~v.ok THEN FALSE
        ELSE IF Len(v.names) = 0 THEN FALSE
        ELSE \A i \in 0..(Pow2(Len(v.names)) - 2) :
                 evaluate_expression(expr, MsbAssignment(v.names, i))

\* is_tautology
is_tautology(expr) ==
    LET v == from_expr(expr)
    IN  IF ~v.ok THEN FALSE
        ELSE IF Len(v.names) = 0 THEN FALSE
        ELSE \A i \in 0..(Pow2(Len(v.names)) - 1) :
                 evaluate_expression(expr, MsbAssignment(v.names, i))

\* the first assignment (every variable false) left out of the loop
is_contradiction_skips_first(expr) ==
    LET v == from_expr(expr)
    IN  IF ~v.ok THEN FALSE
        ELSE IF Len(v.names) = 0 THEN FALSE
        ELSE \A i \in 1..(Pow2(Len(v.names)) - 1) :
                 ~evaluate_expression(expr, MsbAssignment(v.names, i))

\* is_contradiction
is_contradiction(expr) ==
    LET v == from_expr(expr)
    IN  IF ~v.ok THEN FALSE
        ELSE IF Len(v.names) = 0 THEN FALSE
        ELSE \A i \in 0..(Pow2(Len(v.names)) - 1) :
                 ~evaluate_expression(expr, MsbAssignment(v.names, i))

\* expressions_equivalent_structure of reduction.rs
RECURSIVE expressions_equivalent_structure(_, _)
expressions_equivalent_structure(left, right) ==
    IF left.op # right.op THEN FALSE
    ELSE IF left.op = "Identifier" THEN left.name = right.name
    ELSE IF left.op = "Not" THEN expressions_equivalent_structure(left.e, right.e)
    ELSE /\ expressions_equivalent_structure(left.l, right.l)
         /\ expressions_equivalent_structure(left.r, right.r)

Reduction(original, reduced, simplified) ==
    [status |-> "Ok", original |-> original, reduced |-> reduced, simplified |-> simplified]

\* the reduced tree stored as the original as well
reduction_of_reduced_twice(expr, minimized) ==
    IF minimized.some
    THEN Reduction(minimized.value, minimized.value,
                   ~expressions_equivalent_structure(expr, minimized.value))
    ELSE Reduction(expr, expr, FALSE)

\* the Ok(qm) arm of reduce_expression, given the result of qm.minimize()
reduction_of(expr, minimized) ==
    IF minimized.some
    THEN Reduction(expr, minimized.value,
                   ~expressions_equivalent_structure(expr, minimized.value))
    ELSE Reduction(expr, expr, FALSE)

\* what the caller of qm.minimize() returns: reduce_expression wraps the
\* Option<Expr> into a Reduction, a direct caller gets the Option<Expr>
minimize_result(caller, expr, minimized) ==
    IF caller = "reduce_expression" THEN reduction_of(expr, minimized)
    ELSE [status |-> "Ok", minimized |-> minimized]

(***************************************************************************)
(* The loops run to their end: minimize and reduce_expression as functions *)
(* of their argument, for a call made on the result of another call.       *)
(***************************************************************************)
\* QuineMcCluskey::find_prime_implicants: the while loop from a generation on
RECURSIVE find_prime_implicants(_, _)
find_prime_implicants(current_implicants, prime_implicants) ==
    IF current_implicants = <<>> THEN prime_implicants
    ELSE Let(prime_round(current_implicants), LAMBDA round :
             find_prime_implicants(round.next, prime_implicants \o round.primes))

\* the essential `loop` of find_minimal_cover: the state it breaks with, or
\* the pass in which Vec::remove panics
RECURSIVE essential_loop(_, _, _)
essential_loop(uncovered, selected, available) ==
    Let(essential_pass(uncovered, selected, available), LAMBDA pass :
        IF pass.panic \/ ~pass.essential_found THEN pass
        ELSE essential_loop(pass.uncovered, pass.selected, pass.available))

\* the greedy while loop of find_minimal_cover: the selected implicants
RECURSIVE greedy_loop(_, _, _)
greedy_loop(uncovered, selected, available) ==
    IF uncovered = {} \/ available = <<>> THEN selected
    ELSE Let(greedy_step(uncovered, selected, available), LAMBDA step :
             greedy_loop(step.uncovered, step.selected, step.available))

\* QuineMcCluskey::find_minimal_cover
find_minimal_cover(minterms, prime_implicants) ==
    IF prime_implicants = <<>> THEN [panic |-> FALSE, cover |-> <<>>]
    ELSE Let(essential_loop(minterms, <<>>, prime_implicants), LAMBDA essential :
             IF essential.panic THEN [panic |-> TRUE]
             ELSE [panic |-> FALSE,
                   cover |-> greedy_loop(essential.uncovered, essential.selected,
                                         essential.available)])

\* QuineMcCluskey::minimize on the value of from_expression
minimize(q) ==
    IF q.minterms = {} THEN [panic |-> FALSE, minimized |-> SomeExpr(FalseSentinel)]
    ELSE IF Len(q.variables) = 0 THEN [panic |-> FALSE, minimized |-> NoExpr]
    ELSE Let(IndexSeq(q.minterms), LAMBDA idxs :
         Let(find_prime_implicants(
                 [t \in 1..Len(idxs) |-> Minterm_new(idxs[t], Len(q.variables))], <<>>),
             LAMBDA primes :
         Let(find_minimal_cover(q.minterms, primes), LAMBDA minimal :
             IF minimal.panic THEN [panic |-> TRUE]
             ELSE [panic |-> FALSE,
                   minimized |-> implicants_to_expression(q.variables, minimal.cover)])))

\* reduce_expression
reduce_expression(expr) ==
    IF is_tautology(expr) THEN Reduction(expr, TrueSentinel, TRUE)
    ELSE IF is_contradiction(expr) THEN Reduction(expr, FalseSentinel, TRUE)
    ELSE Let(from_expression(expr), LAMBDA q :
             IF ~q.ok THEN Err(q.err)
             ELSE Let(minimize(q), LAMBDA m :
                      IF m.panic THEN Panicked ELSE reduction_of(expr, m.minimized)))

(***************************************************************************)
(* Parser (src/source/parser.rs) over the tokens of the Lexer               *)
(* (src/source/lexer.rs): a token is a record with its variant in `token`; *)
(* `current` is the 0-based index of Parser.current.                       *)
(***************************************************************************)
Token(variant) == [token |-> variant]
IdentifierToken(name) == [token |-> "Identifier", name |-> name]
Eof == Token("Eof")

\* Parser::current_token
current_token(toks, current) ==
    IF current < Len(toks) THEN toks[current + 1] ELSE Eof

\* Parser::advance: the new value of self.current
advance(toks, current) ==
    IF current < (IF Len(toks) = 0 THEN 0 ELSE Len(toks) - 1) THEN current + 1 ELSE current

ParseOk(expr, current) == [ok |-> TRUE, expr |-> expr, current |-> current]
UnexpectedToken(expected, found, current) ==
    [ok |-> FALSE, current |-> current,
     err |-> [kind |-> "UnexpectedToken", expected |-> expected, found |-> found]]
UnexpectedEof(current) ==
    [ok |-> FALSE, current |-> current, err |-> [kind |-> "UnexpectedEof"]]

\* the four binary levels of the grammar: the function that parses the
\* operands of a level, and the token (and Expr variant) of its operator
\* the levels of `or` and `and` exchanged
Operand_or_below_and(rule) ==
    CASE rule = "parse_implication" -> "parse_and"
      [] rule = "parse_and" -> "parse_xor"
      [] rule = "parse_xor" -> "parse_or"
      [] rule = "parse_or" -> "parse_unary"

Operand(rule) ==
    CASE rule = "parse_implication" -> "parse_or"
      [] rule = "parse_or" -> "parse_xor"
      [] rule = "parse_xor" -> "parse_and"
      [] rule = "parse_and" -> "parse_unary"
Operator(rule) ==
    CASE rule = "parse_implication" -> "Implication"
      [] rule = "parse_or" -> "Or"
      [] rule = "parse_xor" -> "Xor"
      [] rule = "parse_and" -> "And"

\* `left` of a binary level before its first operand is parsed
NoLeft == [op |-> "None"]

\* the recursive descent: the body of the parsing function `rule` started at
\* `current`; for a binary level with lhs # NoLeft, its while loop entered
\* with left = lhs
RECURSIVE descend(_, _, _, _)
descend(rule, toks, current, lhs) ==
    LET tok == current_token(toks, current)
    IN  IF rule = "parse_primary" THEN
            IF tok.token = "Identifier"
            THEN ParseOk(Identifier(tok.name), advance(toks, current))
            ELSE IF tok.token = "LeftParen" THEN
                LET inner == descend("parse_implication", toks, advance(toks, current), NoLeft)
                IN  IF ~inner.ok THEN inner
                    \* self.expect(Token::RightParen)?
                    ELSE IF current_token(toks, inner.current).token = "RightParen"
                    THEN ParseOk(inner.expr, advance(toks, inner.current))
                    ELSE UnexpectedToken("RightParen", current_token(toks, inner.current),
                                         inner.current)
            ELSE IF tok.token = "Eof" THEN UnexpectedEof(current)
            ELSE UnexpectedToken("identifier or '('", tok, current)
        ELSE IF rule = "parse_unary" THEN
            IF tok.token = "Not"
            THEN LET inner == descend("parse_unary", toks, advance(toks, current), NoLeft)
                 IN  IF ~inner.ok THEN inner ELSE ParseOk(Not(inner.expr), inner.current)
            ELSE descend("parse_primary", toks, current, NoLeft)
        ELSE IF lhs = NoLeft THEN
            \* let mut left = self.<operand>()?;
            LET first == descend(Operand(rule), toks, current, NoLeft)
            IN  IF ~first.ok THEN first ELSE descend(rule, toks, first.current, first.expr)
        ELSE
            \* while matches!(self.current_token().token, <operator>) { .. }
            IF tok.token = Operator(rule)
            THEN LET rhs == descend(Operand(rule), toks, advance(toks, current), NoLeft)
                 IN  IF ~rhs.ok THEN rhs
                     ELSE descend(rule, toks, rhs.current, Binary(Operator(rule), lhs, rhs.expr))
            ELSE ParseOk(lhs, current)

parse_primary(toks, current) == descend("parse_primary", toks, current, NoLeft)
parse_unary(toks, current) == descend("parse_unary", toks, current, NoLeft)
parse_and(toks, current) == descend("parse_and", toks, current, NoLeft)
parse_xor(toks, current) == descend("parse_xor", toks, current, NoLeft)
parse_or(toks, current) == descend("parse_or", toks, current, NoLeft)
parse_implication(toks, current) == descend("parse_implication", toks, current, NoLeft)

\* Parser::parse on a parser fresh from Parser::new (current = 0)
parse(toks) ==
    LET parsed == parse_implication(toks, 0)
    IN  IF ~parsed.ok THEN parsed
        ELSE IF current_token(toks, parsed.current).token # "Eof"
        THEN UnexpectedToken("end of input", current_token(toks, parsed.current),
                             parsed.current)
        ELSE parsed

(***************************************************************************)
(* Inputs.                                                                 *)
(***************************************************************************)
NameA == <<97>>
NameB == <<98>>
NameC == <<99>>
NameTrue == <<116, 114, 117, 101>>
NameFalse == <<102, 97, 108, 115, 101>>
\* "v01", "v02", ...: increasing in i
VarName(i) == <<118, 48 + (i \div 10), 48 + (i % 10)>>
EmptyName == <<>>
DashName == <<97, 45, 98>>
\* n times 'a'
LongName(n) == [i \in 1..n |-> 97]
\* n times U+00E9
AccentName(n) == [i \in 1..n |-> 233]

\* the trees with exactly k operator nodes over the leaves a and b
RECURSIVE TreesOfSize(_)
TreesOfSize(k) ==
    IF k = 0 THEN {Identifier(NameA), Identifier(NameB)}
    ELSE {Not(x) : x \in TreesOfSize(k - 1)}
         \cup UNION {{Binary(o, x, y) : o \in BinaryOps,
                                        x \in TreesOfSize(i),
                                        y \in TreesOfSize(k - 1 - i)} : i \in 0..(k - 1)}

GenericTrees == UNION {TreesOfSize(k) : k \in 0..MaxNodes}

\* product term number c over a, b, c: digit p of c in base 3 says whether
\* variable p is absent (0), positive (1) or negated (2)
SopVars == <<NameA, NameB, NameC>>
CubeTerm(c) ==
    LET digit(p) == (c \div (3 ^ (p - 1))) % 3
        lits == IndexSeq({p \in 1..Len(SopVars) : digit(p) # 0})
        terms == [t \in 1..Len(lits) |->
                     IF digit(lits[t]) = 1 THEN Identifier(SopVars[lits[t]])
                     ELSE Not(Identifier(SopVars[lits[t]]))]
    IN  FoldTerms("And", terms[1], Tail(terms))

NumCubes == 3 ^ Len(SopVars) - 1

\* the strictly increasing sequences of at most k product term numbers
RECURSIVE CubeSeqs(_)
CubeSeqs(k) ==
    IF k = 0 THEN {<<>>}
    ELSE LET shorter == CubeSeqs(k - 1)
             longest == {q \in shorter : Len(q) = k - 1}
         IN  shorter \cup
             {qc \in {Append(q, c) : q \in longest, c \in 1..NumCubes} :
                 \A t \in 1..(Len(qc) - 1) : qc[t] < qc[t + 1]}

SopTree(q) ==
    LET terms == [t \in 1..Len(q) |-> CubeTerm(q[t])]
    IN  FoldTerms("Or", terms[1], Tail(terms))

SopTrees == {SopTree(q) : q \in CubeSeqs(MaxTerms) \ {<<>>}}

\* the names v(lo) .. v(hi), in this order
VarChain(lo, hi) == [i \in 1..(hi - lo + 1) |-> VarName(lo + i - 1)]
OrChain(names) ==
    FoldTerms("Or", Identifier(names[1]), [i \in 1..(Len(names) - 1) |-> Identifier(names[i + 1])])

\* names around the limits of the validator
NamePool ==
    {NameA, EmptyName, DashName, <<97, 95, 49>>,
     LongName(MAX_VARIABLE_NAME_LENGTH), LongName(MAX_VARIABLE_NAME_LENGTH + 1),
     AccentName(MAX_VARIABLE_NAME_LENGTH \div 2), AccentName(MAX_VARIABLE_NAME_LENGTH \div 2 + 1)}

NameTrees ==
    {Identifier(x) : x \in NamePool}
    \cup {Not(Identifier(x)) : x \in NamePool}
    \cup {And(Identifier(x), Identifier(y)) : x \in NamePool, y \in NamePool}

\* trees around the limit on the number of distinct names
FullChain == VarChain(1, MAX_VARIABLES)
ManyValidTrees ==
    {OrChain(VarChain(1, MAX_VARIABLES - 1)),
     OrChain(FullChain),
     OrChain(Reversed(FullChain)),
     OrChain(FullChain \o <<VarName(1), VarName(MAX_VARIABLES)>>),
     And(OrChain(FullChain), Not(OrChain(FullChain)))}
TooManyTrees ==
    {OrChain(VarChain(1, MAX_VARIABLES + 1)),
     OrChain(VarChain(1, MAX_VARIABLES + 2)),
     OrChain(Reversed(VarChain(1, MAX_VARIABLES + 2))),
     OrChain(FullChain \o <<DashName, VarName(MAX_VARIABLES + 1)>>),
     OrChain(FullChain \o <<VarName(MAX_VARIABLES + 1), DashName>>),
     OrChain(FullChain \o <<VarName(3), VarName(MAX_VARIABLES + 1), VarName(MAX_VARIABLES + 2)>>),
     And(OrChain(VarChain(1, 10)), Not(Xor(OrChain(VarChain(11, MAX_VARIABLES + 1)), Identifier(EmptyName)))),
     Implication(Identifier(EmptyName), OrChain(VarChain(1, MAX_VARIABLES + 1)))}

SpecialTrees ==
    {TrueSentinel, FalseSentinel, Identifier(NameTrue), Not(Identifier(NameFalse)),
     And(Identifier(NameTrue), Identifier(NameA)),
     Or(Identifier(NameA), And(Identifier(NameA), Identifier(NameB))),
     Or(And(Identifier(NameA), Identifier(NameB)), And(Not(Identifier(NameA)), Identifier(NameB)))}

\* the trees on which every assignment is enumerated (few variables, or
\* rejected by the validator)
EvalTrees == GenericTrees \cup SopTrees \cup SpecialTrees \cup NameTrees \cup TooManyTrees
\* the trees handed to Variables::from_expr alone
CollectTrees == EvalTrees \cup ManyValidTrees

\* pairs for check_equivalence
SmallTrees == TreesOfSize(0) \cup TreesOfSize(1)
SmallPairs == SmallTrees \X SmallTrees
SentinelPairs == (SmallTrees \X {TrueSentinel, FalseSentinel})
                 \cup ({TrueSentinel, FalseSentinel} \X SmallTrees)
NamePairs == {Identifier(x) : x \in NamePool} \X {Identifier(y) : y \in NamePool}
\* both sides valid, the union of their names wider than the row counter:
\* the left side is false and the right side true when every name is false
WidePairs ==
    {<<OrChain(FullChain),
       Not(OrChain(VarChain(MAX_VARIABLES + 1, I32_BITS - 1 + extra)))>> :
        extra \in 0..MaxWideExtra}
\* op(A, B) against op(B, A) for the commutative operators: small A and B
\* over three names, and a valid A with MAX_VARIABLES names beside a valid B
\* with one more name
CommuteTrees == SmallTrees \cup {Identifier(NameC), Not(Identifier(NameC))}
CommutedPairs ==
    {<<Binary(o, x, y), Binary(o, y, x)>> :
        o \in {"And", "Or", "Xor"}, x \in CommuteTrees, y \in CommuteTrees}
    \cup {<<Binary(o, OrChain(FullChain), Identifier(VarName(MAX_VARIABLES + 1))),
            Binary(o, Identifier(VarName(MAX_VARIABLES + 1)), OrChain(FullChain))>> :
              o \in {"And", "Or", "Xor"}}
EquivalencePairs ==
    SmallPairs \cup SentinelPairs \cup NamePairs \cup WidePairs \cup CommutedPairs

\* a build with overflow checks and one without
Builds == {"debug", "release"}

\* the sum of the minterms of an ON-set over the first n of the names a, b, c:
\* minterm i has variable j positive iff bit n - j of i is set
MintermTerm(i, n) ==
    FoldTerms("And",
              IF BitSet(i, n - 1) THEN Identifier(SopVars[1]) ELSE Not(Identifier(SopVars[1])),
              [t \in 1..(n - 1) |->
                  IF BitSet(i, n - 1 - t) THEN Identifier(SopVars[t + 1])
                  ELSE Not(Identifier(SopVars[t + 1]))])
OnSetTree(on_set, n) ==
    LET idxs == IndexSeq(on_set)
    IN  FoldTerms("Or", MintermTerm(idxs[1], n),
                  [t \in 1..(Len(idxs) - 1) |-> MintermTerm(idxs[t + 1], n)])
\* one tree for every non-empty ON-set over one, two and three variables
OnSetTrees ==
    UNION {{OnSetTree(on_set, n) : on_set \in (SUBSET (0..(Pow2(n) - 1))) \ {{}}} :
              n \in 1..Len(SopVars)}

\* the trees handed to QuineMcCluskey::from_expression(..).minimize() directly
MinimizeTrees == GenericTrees \cup SpecialTrees \cup NameTrees \cup OnSetTrees

\* the (possibly partial) assignments handed to evaluate_with_assignment
AssignmentNames == {NameA, NameB, NameC}
PartialAssignments == UNION {[D -> BOOLEAN] : D \in SUBSET AssignmentNames}

\* the token vectors of Parser::new: every sequence of at most MaxTokens
\* tokens over TokenAlphabet, and the inputs of the parser's tests, each
\* followed by the Eof token the Lexer ends with
NameD == <<100>>
TokenAlphabet ==
    {IdentifierToken(NameA), IdentifierToken(NameB),
     Token("Not"), Token("And"), Token("Or"), Token("Xor"), Token("Implication"),
     Token("LeftParen"), Token("RightParen")}
TokenSeqs == UNION {[1..k -> TokenAlphabet] : k \in 0..MaxTokens}
TokA == IdentifierToken(NameA)
TokB == IdentifierToken(NameB)
TokC == IdentifierToken(NameC)
TokD == IdentifierToken(NameD)
\* "a or b and c"
OrAndTokens == <<TokA, Token("Or"), TokB, Token("And"), TokC>>
\* "not a and b"
NotAndTokens == <<Token("Not"), TokA, Token("And"), TokB>>
\* "a and b -> c or d"
AndImplOrTokens ==
    <<TokA, Token("And"), TokB, Token("Implication"), TokC, Token("Or"), TokD>>
\* "(a or b) and c"
ParenLeftTokens ==
    <<Token("LeftParen"), TokA, Token("Or"), TokB, Token("RightParen"), Token("And"), TokC>>
\* "a and (b or c)"
ParenRightTokens ==
    <<TokA, Token("And"), Token("LeftParen"), TokB, Token("Or"), TokC, Token("RightParen")>>
\* "a -> b -> c"
ImplChainTokens == <<TokA, Token("Implication"), TokB, Token("Implication"), TokC>>
\* "a xor b or c and d"
XorOrAndTokens == <<TokA, Token("Xor"), TokB, Token("Or"), TokC, Token("And"), TokD>>
\* "(a or b) c"
TrailingTokens ==
    <<Token("LeftParen"), TokA, Token("Or"), TokB, Token("RightParen"), TokC>>
TestTokens ==
    {OrAndTokens, NotAndTokens, AndImplOrTokens, ParenLeftTokens, ParenRightTokens,
     ImplChainTokens, XorOrAndTokens, TrailingTokens}
ParserInputs == {Append(q, Eof) : q \in TokenSeqs \cup TestTokens}

\* the operands of Minterm::combine: every vector of at most MaxBits
\* Option<bool> with one of a few covered sets
BitVectors == UNION {[1..n -> {None, Some(TRUE), Some(FALSE)}] : n \in 0..MaxBits}
CoveredSets == {{0}, {1}, {0, 2}}
Implicants == {[bits |-> b, covered_minterms |-> c] : b \in BitVectors, c \in CoveredSets}

(***************************************************************************)
(* The state machine: one call at a time of one of the entry points; the   *)
(* minimizer advances one loop iteration per step.                         *)
(***************************************************************************)
VARIABLES pc, op, left, right, result, qm,
          current_implicants, prime_implicants,
          uncovered_minterms, selected_implicants, available_implicants,
          assignment, tokens, operands

vars == <<pc, op, left, right, result, qm,
          current_implicants, prime_implicants,
          uncovered_minterms, selected_implicants, available_implicants,
          assignment, tokens, operands>>

NoTree == [op |-> "None"]
NoResult == [status |-> "None"]
NoQm == [variables |-> <<>>, minterms |-> {}]

qm_vars == <<qm, current_implicants, prime_implicants,
             uncovered_minterms, selected_implicants, available_implicants>>

\* the arguments of evaluate_with_assignment, of Parser::new and of
\* Minterm::combine, which are not trees
arg_vars == <<assignment, tokens, operands>>

QmIdle ==
    /\ qm = NoQm
    /\ current_implicants = <<>>
    /\ prime_implicants = <<>>
    /\ uncovered_minterms = {}
    /\ selected_implicants = <<>>
    /\ available_implicants = <<>>

Init ==
    /\ pc = "idle"
    /\ op = "none"
    /\ left = NoTree
    /\ right = NoTree
    /\ result = NoResult
    /\ QmIdle
    /\ assignment = EmptyAssignment
    /\ tokens = <<>>
    /\ operands = <<>>

\* Variables::from_expr(expr)
CallFromExpr ==
    /\ pc = "idle"
    /\ \E expr \in CollectTrees :
        /\ left' = expr
        /\ result' = LET v == from_expr(expr)
                     IN  IF v.ok THEN [status |-> "Ok", names |-> v.names] ELSE Err(v.err)
    /\ op' = "from_expr"
    /\ pc' = "done"
    /\ UNCHANGED <<right, qm_vars, arg_vars>>

\* generate_truth_table(expr)
CallTruthTable ==
    /\ pc = "idle"
    /\ \E expr \in EvalTrees, build \in Builds :
        /\ left' = expr
        /\ result' = generate_truth_table(expr, build)
    /\ op' = "generate_truth_table"
    /\ pc' = "done"
    /\ UNCHANGED <<right, qm_vars, arg_vars>>

\* check_equivalence(left, right)
CallCheckEquivalence ==
    /\ pc = "idle"
    /\ \E pair \in EquivalencePairs, build \in Builds :
        /\ left' = pair[1]
        /\ right' = pair[2]
        /\ result' = check_equivalence(pair[1], pair[2], build)
    /\ op' = "check_equivalence"
    /\ pc' = "done"
    /\ UNCHANGED <<qm_vars, arg_vars>>

\* QuineMcCluskey::from_expression(expr) and qm.minimize() up to the call of
\* find_prime_implicants, on behalf of `caller`
FromExpressionMinimize(caller, expr) ==
    \E q \in {from_expression(expr)} :
        IF ~q.ok
        THEN /\ result' = Err(q.err)
             /\ pc' = "done"
             /\ UNCHANGED qm_vars
        ELSE IF q.minterms = {}
        THEN /\ result' = minimize_result(caller, expr, SomeExpr(FalseSentinel))
             /\ pc' = "done"
             /\ UNCHANGED qm_vars
        ELSE IF Len(q.variables) = 0
        THEN /\ result' = minimize_result(caller, expr, NoExpr)
             /\ pc' = "done"
             /\ UNCHANGED qm_vars
        ELSE /\ qm' = [variables |-> q.variables, minterms |-> q.minterms]
             /\ current_implicants' =
                    Let(IndexSeq(q.minterms), LAMBDA idxs :
                        [t \in 1..Len(idxs) |-> Minterm_new(idxs[t], Len(q.variables))])
             /\ result' = NoResult
             /\ pc' = "find_prime_implicants"
             /\ UNCHANGED <<prime_implicants, uncovered_minterms,
                            selected_implicants, available_implicants>>

\* reduce_expression(expr) up to the call of find_prime_implicants
CallReduce ==
    /\ pc = "idle"
    /\ op' = "reduce_expression"
    /\ \E expr \in EvalTrees :
        /\ left' = expr
        /\ IF is_tautology(expr)
           THEN /\ result' = Reduction(expr, TrueSentinel, TRUE)
                /\ pc' = "done"
                /\ UNCHANGED qm_vars
           ELSE IF is_contradiction(expr)
           THEN /\ result' = Reduction(expr, FalseSentinel, TRUE)
                /\ pc' = "done"
                /\ UNCHANGED qm_vars
           ELSE FromExpressionMinimize("reduce_expression", expr)
    /\ UNCHANGED <<right, arg_vars>>

\* QuineMcCluskey::from_expression(expr)?.minimize() called directly, up to
\* the call of find_prime_implicants
CallMinimize ==
    /\ pc = "idle"
    /\ op' = "minimize"
    /\ \E expr \in MinimizeTrees :
        /\ left' = expr
        /\ FromExpressionMinimize("minimize", expr)
    /\ UNCHANGED <<right, arg_vars>>

\* Evaluator::evaluate_with_assignment(expr, assignment)
CallEvaluate ==
    /\ pc = "idle"
    /\ \E expr \in GenericTrees, a \in PartialAssignments :
        /\ left' = expr
        /\ assignment' = a
        /\ result' = [status |-> "Ok", value |-> evaluate_expression(expr, a)]
    /\ op' = "evaluate_with_assignment"
    /\ pc' = "done"
    /\ UNCHANGED <<right, qm_vars, tokens, operands>>

\* Parser::new(input).parse()
CallParse ==
    /\ pc = "idle"
    /\ \E toks \in ParserInputs :
        /\ tokens' = toks
        /\ result' = LET parsed == parse(toks)
                     IN  IF parsed.ok
                         THEN [status |-> "Ok", expr |-> parsed.expr, current |-> parsed.current]
                         ELSE [status |-> "Err", err |-> parsed.err, current |-> parsed.current]
    /\ op' = "parse"
    /\ pc' = "done"
    /\ UNCHANGED <<left, right, qm_vars, assignment, operands>>

\* self.combine(&other) on two implicants
CallCombine ==
    /\ pc = "idle"
    /\ \E self \in Implicants, other \in Implicants :
        /\ operands' = <<self, other>>
        /\ result' = [status |-> "Ok", combined |-> combine(self, other)]
    /\ op' = "combine"
    /\ pc' = "done"
    /\ UNCHANGED <<left, right, qm_vars, assignment, tokens>>

\* one iteration of the while loop of find_prime_implicants
PrimeRound ==
    /\ pc = "find_prime_implicants"
    /\ current_implicants # <<>>
    /\ \E round \in {prime_round(current_implicants)} :
           /\ prime_implicants' = prime_implicants \o round.primes
           /\ current_implicants' = round.next
    /\ UNCHANGED <<pc, op, left, right, result, qm, arg_vars,
                   uncovered_minterms, selected_implicants, available_implicants>>

\* the end of minimize: implicants_to_expression, and for reduce_expression
\* its Ok(qm) arm
Finished(minimal_cover) ==
    /\ result' = Let(implicants_to_expression(qm.variables, minimal_cover),
                      LAMBDA minimized : minimize_result(op, left, minimized))
    /\ pc' = "done"

\* find_prime_implicants returns; find_minimal_cover starts
StartCover ==
    /\ pc = "find_prime_implicants"
    /\ current_implicants = <<>>
    /\ IF prime_implicants = <<>>
       THEN /\ Finished(<<>>)
            /\ UNCHANGED <<uncovered_minterms, selected_implicants, available_implicants>>
       ELSE /\ uncovered_minterms' = qm.minterms
            /\ selected_implicants' = <<>>
            /\ available_implicants' = prime_implicants
            /\ pc' = "essential"
            /\ UNCHANGED result
    /\ UNCHANGED <<op, left, right, qm, current_implicants, prime_implicants, arg_vars>>

\* one iteration of the essential loop of find_minimal_cover
EssentialPass ==
    /\ pc = "essential"
    /\ \E pass \in {essential_pass(uncovered_minterms, selected_implicants,
                                    available_implicants)} :
           IF pass.panic
           THEN /\ result' = Panicked
                /\ pc' = "done"
                /\ UNCHANGED <<uncovered_minterms, selected_implicants,
                               available_implicants>>
           ELSE /\ uncovered_minterms' = pass.uncovered
                /\ selected_implicants' = pass.selected
                /\ available_implicants' = pass.available
                /\ pc' = IF pass.essential_found THEN "essential" ELSE "greedy"
                /\ UNCHANGED result
    /\ UNCHANGED <<op, left, right, qm, arg_vars,
                   current_implicants, prime_implicants>>

\* one iteration of the greedy loop of find_minimal_cover
GreedyStep ==
    /\ pc = "greedy"
    /\ uncovered_minterms # {}
    /\ available_implicants # <<>>
    /\ \E step \in {greedy_step(uncovered_minterms, selected_implicants,
                                 available_implicants)} :
           /\ uncovered_minterms' = step.uncovered
           /\ selected_implicants' = step.selected
           /\ available_implicants' = step.available
    /\ UNCHANGED <<pc, op, left, right, result, qm, arg_vars,
                   current_implicants, prime_implicants>>

\* find_minimal_cover returns selected_implicants; minimize and
\* reduce_expression finish
CoverDone ==
    /\ pc = "greedy"
    /\ uncovered_minterms = {} \/ available_implicants = <<>>
    /\ Finished(selected_implicants)
    /\ UNCHANGED <<op, left, right, qm, current_implicants, prime_implicants,
                   uncovered_minterms, selected_implicants, available_implicants, arg_vars>>

\* the call has returned; its values are dropped
Return ==
    /\ pc = "done"
    /\ pc' = "idle"
    /\ op' = "none"
    /\ left' = NoTree
    /\ right' = NoTree
    /\ result' = NoResult
    /\ qm' = NoQm
    /\ current_implicants' = <<>>
    /\ prime_implicants' = <<>>
    /\ uncovered_minterms' = {}
    /\ selected_implicants' = <<>>
    /\ available_implicants' = <<>>
    /\ assignment' = EmptyAssignment
    /\ tokens' = <<>>
    /\ operands' = <<>>

Next ==
    \/ CallFromExpr
    \/ CallTruthTable
    \/ CallCheckEquivalence
    \/ CallReduce
    \/ CallMinimize
    \/ CallEvaluate
    \/ CallParse
    \/ CallCombine
    \/ PrimeRound
    \/ StartCover
    \/ EssentialPass
    \/ GreedyStep
    \/ CoverDone
    \/ Return

Spec == Init /\ [][Next]_vars

\* a step of the minimizer loops: the code is synchronous and never waits,
\* so a call under way takes its next step
MinimizerStep == PrimeRound \/ StartCover \/ EssentialPass \/ GreedyStep \/ CoverDone

\* one call of reduce_expression from its entry to its return
ReduceNext == CallReduce \/ MinimizerStep

ReduceSpec == Init /\ [][ReduceNext]_vars /\ WF_vars(MinimizerStep)

(***************************************************************************)
(* Notions the properties are stated with.                                 *)
(***************************************************************************)
\* the set of the names occurring in a tree
RECURSIVE IdentifiersOf(_)
IdentifiersOf(e) ==
    IF e.op = "Identifier" THEN {e.name}
    ELSE IF e.op = "Not" THEN IdentifiersOf(e.e)
    ELSE IdentifiersOf(e.l) \cup IdentifiersOf(e.r)

\* the total assignments of a set of names
Assignments(names) == [names -> BOOLEAN]

Returned(operation) == pc = "done" /\ op = operation
ReturnedOk(operation) == Returned(operation) /\ result.status = "Ok"

IsSorted(names) == \A i \in 1..(Len(names) - 1) : StrLess(names[i], names[i + 1])

(***************************************************************************)
(* C1  Semantic preservation: whenever reduce_expression returns a         *)
(* Reduction for a tree E, check_equivalence(E, reduced) returns           *)
(* equivalent == true, on the sentinel paths and on the minimizer path.    *)
(***************************************************************************)
SemanticPreservation ==
    ReturnedOk("reduce_expression") =>
        \A build \in Builds :
            LET check == check_equivalence(left, result.reduced, build)
            IN  check.status = "Ok" /\ check.equivalent

\* a reduction through the minimizer of a three-variable tree into two or
\* more product terms that differs from its input
SemanticPreservationWitness ==
    /\ ReturnedOk("reduce_expression")
    /\ Len(qm.variables) = 3
    /\ Len(selected_implicants) >= 2
    /\ result.simplified
    /\ result.reduced # left

(***************************************************************************)
(* C2  One bit mapping everywhere: the ON-set of from_expression(E) is the *)
(* set of the indices of the true rows of generate_truth_table(E), and row *)
(* i of check_equivalence carries the assignment of truth-table row i.     *)
(***************************************************************************)
SharedBitMapping ==
    /\ (op = "reduce_expression" /\ qm # NoQm) =>
          LET table == generate_truth_table(left, "release")
          IN  qm.minterms = {i \in 0..(Len(table.rows) - 1) : table.rows[i + 1].result}
    /\ ReturnedOk("generate_truth_table") =>
          \A k \in 1..Len(result.rows) :
              equivalence_row(left, left, result.variables, k - 1).assignment
                  = result.rows[k].assignments

(***************************************************************************)
(* C3  generate_truth_table(E) returns exactly 2^n rows for the n distinct *)
(* names of E, every total assignment of the names is the assignment of    *)
(* exactly one row, and each result is evaluate_expression(E, assignment). *)
(***************************************************************************)
TruthTableComplete ==
    ReturnedOk("generate_truth_table") =>
        LET names == IdentifiersOf(left)
        IN  /\ Len(result.rows) = 2 ^ Cardinality(names)
            /\ \A a \in Assignments(names) :
                   Cardinality({k \in 1..Len(result.rows) : result.rows[k].assignments = a}) = 1
            /\ \A k \in 1..Len(result.rows) :
                   result.rows[k].result = evaluate_expression(left, result.rows[k].assignments)

\* a table of eight rows with true and false results
TruthTableCompleteWitness ==
    /\ ReturnedOk("generate_truth_table")
    /\ Len(result.rows) = 8
    /\ \E k \in 1..8 : result.rows[k].result
    /\ \E k \in 1..8 : ~result.rows[k].result

(***************************************************************************)
(* C4  Row order of generate_truth_table: the rows are those of the        *)
(* indices 0, 1, .., 2^n - 1 in this order, and in row i the variable at   *)
(* position p of the sorted variables is true iff bit p of i is 1.         *)
(***************************************************************************)
TruthTableRowOrder ==
    ReturnedOk("generate_truth_table") =>
        /\ IsSorted(result.variables)
        /\ Range(result.variables) = IdentifiersOf(left)
        /\ \A k \in 1..Len(result.rows) :
               /\ DOMAIN result.rows[k].assignments = Range(result.variables)
               /\ \A p \in 1..Len(result.variables) :
                      result.rows[k].assignments[result.variables[p]]
                          = (((k - 1) \div (2 ^ (p - 1))) % 2 = 1)

\* a table over two variables whose row 1 sets the first variable only and
\* whose row 2 sets the second variable only
TruthTableRowOrderWitness ==
    /\ ReturnedOk("generate_truth_table")
    /\ result.variables = <<NameA, NameB>>
    /\ result.rows[2].assignments[NameA] /\ ~result.rows[2].assignments[NameB]
    /\ result.rows[3].assignments[NameB] /\ ~result.rows[3].assignments[NameA]

(***************************************************************************)
(* C5  For two trees that both pass validation check_equivalence           *)
(* enumerates each of the 2^|U| assignments of the union U of their names  *)
(* once and records exactly one difference for every assignment on which   *)
(* the trees disagree; the row count 1 << |U| does not overflow, go        *)
(* negative or wrap.                                                       *)
(***************************************************************************)
\* value is 1 shifted left n times without loss
RECURSIVE IsShiftOfOne(_, _)
IsShiftOfOne(value, n) ==
    IF n = 0 THEN value = 1
    ELSE value > 0 /\ value % 2 = 0 /\ IsShiftOfOne(value \div 2, n - 1)

\* the assignments a universe is probed with: all of them, or the two
\* constant ones when the universe is as wide as the row counter
Probes(names) ==
    IF Cardinality(names) < I32_BITS - 1 THEN Assignments(names)
    ELSE {[n \in names |-> FALSE], [n \in names |-> TRUE]}

EquivalenceEnumeratesUnion ==
    (Returned("check_equivalence") /\ from_expr(left).ok /\ from_expr(right).ok) =>
        LET universe == IdentifiersOf(left) \cup IdentifiersOf(right)
        IN  /\ result.status = "Ok"
            /\ \A build \in Builds :
                   LET num_combinations == I32Shl1(Cardinality(universe), build)
                   IN  /\ ~num_combinations.panic
                       /\ IsShiftOfOne(num_combinations.value, Cardinality(universe))
            /\ \A d \in 1..Len(result.differences) :
                   DOMAIN result.differences[d].assignment = universe
            /\ \A a \in Probes(universe) :
                   Cardinality({d \in 1..Len(result.differences) :
                                   result.differences[d].assignment = a})
                       = IF evaluate_expression(left, a) # evaluate_expression(right, a)
                         THEN 1 ELSE 0

(***************************************************************************)
(* C6  In every EquivalenceCheck, equivalent is true iff differences is    *)
(* empty, and every difference holds the values of the left and of the     *)
(* right tree under its assignment, which differ.                          *)
(***************************************************************************)
EquivalenceCheckConsistent ==
    ReturnedOk("check_equivalence") =>
        /\ result.equivalent <=> (result.differences = <<>>)
        /\ \A d \in 1..Len(result.differences) :
               LET diff == result.differences[d]
               IN  /\ diff.left_value = evaluate_expression(left, diff.assignment)
                   /\ diff.right_value = evaluate_expression(right, diff.assignment)
                   /\ diff.left_value # diff.right_value

\* a check that found two or more differences
EquivalenceCheckConsistentWitness ==
    /\ ReturnedOk("check_equivalence")
    /\ ~result.equivalent
    /\ Len(result.differences) >= 2

(***************************************************************************)
(* C7  Every Variables value an operation enumerates over has at most      *)
(* MAX_VARIABLES names, the union universe of check_equivalence included,  *)
(* so that no call enumerates more than 2^MAX_VARIABLES assignments.       *)
(***************************************************************************)
AdmissionBound ==
    /\ ReturnedOk("check_equivalence") => Len(result.variables) <= MAX_VARIABLES
    /\ ReturnedOk("generate_truth_table") =>
          /\ Len(result.variables) <= MAX_VARIABLES
          /\ Len(result.rows) <= 2 ^ MAX_VARIABLES
    /\ op = "reduce_expression" => Len(qm.variables) <= MAX_VARIABLES

(***************************************************************************)
(* C8  Variables::from_expr returns Ok iff every identifier is non-empty,  *)
(* at most 50 characters long and made of alphanumeric characters or       *)
(* underscores and at most 20 distinct names occur; on Ok the result is    *)
(* the sorted duplicate-free set of the names of the tree.                 *)
(***************************************************************************)
ValidName(name) ==
    /\ name # <<>>
    /\ Len(name) <= MAX_VARIABLE_NAME_LENGTH
    /\ \A i \in 1..Len(name) : IsAlphanumeric(name[i]) \/ name[i] = 95

ValidationContract ==
    Returned("from_expr") =>
        /\ (result.status = "Ok") <=>
               /\ \A name \in IdentifiersOf(left) : ValidName(name)
               /\ Cardinality(IdentifiersOf(left)) <= MAX_VARIABLES
        /\ result.status = "Ok" =>
               /\ IsSorted(result.names)
               /\ Range(result.names) = IdentifiersOf(left)

(***************************************************************************)
(* C9  Validation visits the identifier leaves from left to right and      *)
(* stops at the first failure: a rejected name met first gives             *)
(* InvalidVariableName with that name, a 21st distinct name met first      *)
(* gives TooManyVariables { count: 21, max: 20 }, whatever comes later.    *)
(***************************************************************************)
\* the identifier leaves of a tree from left to right
RECURSIVE Leaves(_)
Leaves(e) ==
    IF e.op = "Identifier" THEN <<e.name>>
    ELSE IF e.op = "Not" THEN Leaves(e.e)
    ELSE Leaves(e.l) \o Leaves(e.r)

ValidationOrder ==
    Returned("from_expr") =>
        LET leaves == Leaves(left)
            failing == {k \in 1..Len(leaves) :
                           \/ NameRejected(leaves[k])
                           \/ Cardinality({leaves[j] : j \in 1..k}) > MAX_VARIABLES}
        IN  IF failing = {} THEN result.status = "Ok"
            ELSE /\ result.status = "Err"
                 /\ result.err =
                        IF NameRejected(leaves[SetMin(failing)])
                        THEN InvalidVariableName(leaves[SetMin(failing)])
                        ELSE TooManyVariables(MAX_VARIABLES + 1, MAX_VARIABLES)

\* TooManyVariables for a tree in which a rejected name follows the 21st
\* distinct name
ValidationOrderWitness ==
    /\ Returned("from_expr")
    /\ result.status = "Err"
    /\ result.err.kind = "TooManyVariables"
    /\ \E name \in IdentifiersOf(left) : NameRejected(name)

(***************************************************************************)
(* C10  reduce_expression returns the sentinel Or(true, Not(true)) with    *)
(* simplified == true if and only if the tree is true under every          *)
(* assignment of its variables.                                            *)
(***************************************************************************)
TautologySentinel ==
    ReturnedOk("reduce_expression") =>
        ((result.reduced = TrueSentinel /\ result.simplified)
            <=> \A a \in Assignments(IdentifiersOf(left)) : evaluate_expression(left, a))

\* the sentinel returned for a tautology over two or more variables
TautologySentinelWitness ==
    /\ ReturnedOk("reduce_expression")
    /\ result.reduced = TrueSentinel
    /\ Cardinality(IdentifiersOf(left)) >= 2

(***************************************************************************)
(* C11  reduce_expression returns the sentinel And(false, Not(false)) with *)
(* simplified == true if and only if the tree is false under every         *)
(* assignment of its variables, and QuineMcCluskey::minimize returns the   *)
(* same sentinel whenever no assignment makes the tree true (empty ON-set).*)
(***************************************************************************)
ContradictionSentinel ==
    /\ ReturnedOk("reduce_expression") =>
          ((result.reduced = FalseSentinel /\ result.simplified)
              <=> \A a \in Assignments(IdentifiersOf(left)) : ~evaluate_expression(left, a))
    /\ ReturnedOk("minimize") =>
          ((\A a \in Assignments(IdentifiersOf(left)) : ~evaluate_expression(left, a))
              => result.minimized = SomeExpr(FalseSentinel))

\* the sentinel returned by reduce_expression for a contradiction over two
\* or more variables
ContradictionSentinelWitness ==
    /\ ReturnedOk("reduce_expression")
    /\ result.reduced = FalseSentinel
    /\ result.simplified
    /\ Cardinality(IdentifiersOf(left)) >= 2

(***************************************************************************)
(* C12  On the minimizer path reduce_expression sets simplified == false   *)
(* exactly when the reduced tree equals the original up to exchanging the  *)
(* two operands of binary nodes at any depth, and simplified == true       *)
(* otherwise.                                                              *)
(***************************************************************************)
\* equal up to exchanging the operands of binary nodes
RECURSIVE EqualUpToSwaps(_, _)
EqualUpToSwaps(x, y) ==
    IF x.op # y.op THEN FALSE
    ELSE IF x.op = "Identifier" THEN x.name = y.name
    ELSE IF x.op = "Not" THEN EqualUpToSwaps(x.e, y.e)
    ELSE \/ EqualUpToSwaps(x.l, y.l) /\ EqualUpToSwaps(x.r, y.r)
         \/ EqualUpToSwaps(x.l, y.r) /\ EqualUpToSwaps(x.r, y.l)

CommutativeStructure ==
    (ReturnedOk("reduce_expression") /\ qm # NoQm) =>
        (result.simplified <=> ~EqualUpToSwaps(left, result.reduced))

(***************************************************************************)
(* C13  An input that comes back unchanged is never reported as            *)
(* simplified: if reduce_expression(E).reduced is identical to E then      *)
(* simplified == false, also when E is one of the two sentinel trees.      *)
(***************************************************************************)
UnchangedNotSimplified ==
    ReturnedOk("reduce_expression") => (result.reduced = left => ~result.simplified)

(***************************************************************************)
(* C14  If the truth function of a tree E is that of one of its variables  *)
(* v (E is true exactly on the assignments where v is true), then          *)
(* reduce_expression(E).reduced == Identifier(v), and simplified == true   *)
(* unless E is Identifier(v) itself.                                       *)
(***************************************************************************)
SingleVariableFunction ==
    ReturnedOk("reduce_expression") =>
        \A v \in IdentifiersOf(left) :
            (\A a \in Assignments(IdentifiersOf(left)) : evaluate_expression(left, a) = a[v])
                => /\ result.reduced = Identifier(v)
                   /\ result.simplified <=> (left # Identifier(v))

\* a tree over three variables, not a single identifier, reduced to its
\* second variable
SingleVariableFunctionWitness ==
    /\ ReturnedOk("reduce_expression")
    /\ Cardinality(IdentifiersOf(left)) = 3
    /\ result.reduced = Identifier(NameB)
    /\ result.simplified

(***************************************************************************)
(* C15  For every tree that passes validation reduce_expression terminates *)
(* and returns Ok: round r of the prime-implicant loop works on implicants *)
(* with r - 1 DontCare positions, so the generation is empty after at most *)
(* n + 1 rounds; every further pass of the essential loop and every step   *)
(* of the greedy loop shortens the candidate list by exactly the           *)
(* implicants it selected; no step panics.                                 *)
(***************************************************************************)
NoneCount(m) == Cardinality({k \in 1..Len(m.bits) : m.bits[k] = None})

\* the implicants selected by the step
NewlySelected ==
    SubSeq(selected_implicants', Len(selected_implicants) + 1, Len(selected_implicants'))

\* the candidate list after the step is the one before it without the
\* implicants the step selected
RemovedExactlySelected ==
    LET Kept(m) == m \notin Range(NewlySelected)
    IN  /\ Range(NewlySelected) \subseteq Range(available_implicants)
        /\ available_implicants' = SelectSeq(available_implicants, Kept)
        /\ Len(available_implicants') = Len(available_implicants) - Len(NewlySelected)

ReduceRunning ==
    op = "reduce_expression" /\ pc \in {"find_prime_implicants", "essential", "greedy"}

ReduceGeneration ==
    (ReduceRunning /\ pc = "find_prime_implicants") =>
        \A t \in 1..Len(current_implicants) :
            /\ NoneCount(current_implicants[t]) = NoneCount(current_implicants[1])
            /\ NoneCount(current_implicants[t]) <= Len(qm.variables) - 1

ReduceLoopStep ==
    ReduceRunning =>
        /\ (pc = "find_prime_implicants" /\ pc' = "find_prime_implicants") =>
               \/ current_implicants' = <<>>
               \/ /\ current_implicants # <<>>
                  /\ NoneCount(current_implicants'[1]) = NoneCount(current_implicants[1]) + 1
        /\ (pc = "essential" /\ pc' = "essential") =>
               /\ NewlySelected # <<>>
               /\ RemovedExactlySelected
        /\ (pc = "essential" /\ pc' = "greedy") =>
               /\ NewlySelected = <<>>
               /\ available_implicants' = available_implicants
        /\ (pc = "greedy" /\ pc' = "greedy") =>
               /\ Len(NewlySelected) = 1
               /\ RemovedExactlySelected
        /\ pc' = "done" => result'.status = "Ok"

ReduceTerminates ==
    /\ [](Returned("reduce_expression") => (from_expr(left).ok <=> result.status = "Ok"))
    /\ []ReduceGeneration
    /\ [][ReduceLoopStep]_vars
    /\ ReduceRunning ~> (Returned("reduce_expression") /\ result.status = "Ok")

\* a reduction over three variables with six or more prime implicants has
\* returned, and one of the selected implicants is the only prime implicant
\* of none of its minterms: the greedy loop selected it
ReduceTerminatesWitness ==
    /\ ReturnedOk("reduce_expression")
    /\ Len(qm.variables) = 3
    /\ Len(prime_implicants) >= 6
    /\ \E t \in 1..Len(selected_implicants) :
           \A m \in selected_implicants[t].covered_minterms :
               \E u \in 1..Len(prime_implicants) :
                   /\ prime_implicants[u] # selected_implicants[t]
                   /\ m \in prime_implicants[u].covered_minterms

(***************************************************************************)
(* C16  evaluate_expression(E, A) is the truth value of E under the        *)
(* reference semantics, in which exactly the names that A maps to true are *)
(* true (a name missing from A is false), Not is negation, And and Or are  *)
(* conjunction and disjunction, Xor is exclusive-or and Implication(l, r)  *)
(* is (not l) or r; two assignments that agree on the names of E give the  *)
(* same value.                                                             *)
(***************************************************************************)
\* the reference semantics: the truth value of e when exactly the names in
\* true_names are true
RECURSIVE Holds(_, _)
Holds(e, true_names) ==
    IF e.op = "Identifier" THEN e.name \in true_names
    ELSE IF e.op = "Not" THEN ~Holds(e.e, true_names)
    ELSE IF e.op = "And" THEN Holds(e.l, true_names) /\ Holds(e.r, true_names)
    ELSE IF e.op = "Or" THEN Holds(e.l, true_names) \/ Holds(e.r, true_names)
    ELSE IF e.op = "Xor"
    THEN /\ Holds(e.l, true_names) \/ Holds(e.r, true_names)
         /\ ~(Holds(e.l, true_names) /\ Holds(e.r, true_names))
    ELSE Holds(e.l, true_names) => Holds(e.r, true_names)

TrueNames(a) == {n \in DOMAIN a : a[n]}

\* a and b give every name of the set the same value, a missing name
\* counting as false
AgreeOn(a, b, names) == TrueNames(a) \cap names = TrueNames(b) \cap names

EvaluateReference ==
    Returned("evaluate_with_assignment") =>
        /\ result.status = "Ok"
        /\ result.value = Holds(left, TrueNames(assignment))
        /\ \A other \in PartialAssignments :
               AgreeOn(assignment, other, IdentifiersOf(left)) =>
                   evaluate_expression(left, other) = result.value

\* an implication whose right name is missing from the assignment and whose
\* left name is true in it has been evaluated to false, with a name that
\* does not occur in the tree true in the assignment
EvaluateReferenceWitness ==
    /\ Returned("evaluate_with_assignment")
    /\ left.op = "Implication"
    /\ left.l.op = "Identifier"
    /\ left.r.op = "Identifier"
    /\ left.l.name \in TrueNames(assignment)
    /\ left.r.name \notin DOMAIN assignment
    /\ TrueNames(assignment) \ IdentifiersOf(left) # {}
    /\ result.value = FALSE

(***************************************************************************)
(* C17  check_equivalence(op(A, B), op(B, A)) for op among And, Or, Xor    *)
(* and valid trees A and B.  As claimed: it returns equivalent == true     *)
(* with no differences and with the union of the names of A and B as its   *)
(* variables.  As amended: it does so when A and B have at most           *)
(* MAX_VARIABLES distinct names together; otherwise op(A, B) is rejected   *)
(* with TooManyVariables.                                                  *)
(***************************************************************************)
\* the call compares op(A, B) with op(B, A), A and B valid
CommutedCall ==
    /\ Returned("check_equivalence")
    /\ left.op \in {"And", "Or", "Xor"}
    /\ right.op = left.op
    /\ right.l = left.r
    /\ right.r = left.l
    /\ from_expr(left.l).ok
    /\ from_expr(left.r).ok

CommutedEquivalent ==
    /\ result.status = "Ok"
    /\ result.equivalent
    /\ result.differences = <<>>
    /\ IsSorted(result.variables)
    /\ Range(result.variables) = IdentifiersOf(left.l) \cup IdentifiersOf(left.r)

\* the claim as stated
CommutativityAllValid == CommutedCall => CommutedEquivalent

\* the claim as amended
CommutativityWithinCap ==
    CommutedCall =>
        IF Cardinality(IdentifiersOf(left)) <= MAX_VARIABLES
        THEN CommutedEquivalent
        ELSE result = Err(TooManyVariables(MAX_VARIABLES + 1, MAX_VARIABLES))

\* A xor B against B xor A over three names, A and B different trees with
\* an operator each, has returned equivalent
CommutativityWithinCapWitness ==
    /\ CommutedCall
    /\ left.op = "Xor"
    /\ left.l.op = "Implication"
    /\ left.r.op = "Not"
    /\ Cardinality(IdentifiersOf(left)) = 3
    /\ result.status = "Ok"
    /\ result.equivalent

(***************************************************************************)
(* C18  generate_truth_table, check_equivalence and reduce_expression      *)
(* validate their input trees before anything is evaluated: when an input  *)
(* tree fails validation the operation returns the error of the first      *)
(* failing leaf, of the left tree first for check_equivalence, and never   *)
(* a table, a comparison, a sentinel or a Reduction; an error is an        *)
(* InvalidVariableName or a TooManyVariables, is returned only for an      *)
(* invalid input tree, and arises at the entry of the call, never in a     *)
(* step of the minimizer.                                                  *)
(***************************************************************************)
ValidatingOperations == {"generate_truth_table", "check_equivalence", "reduce_expression"}

\* the error of the first leaf, from left to right, at which validation
\* fails, NoError if there is none
FirstError(e) ==
    LET leaves == Leaves(e)
        failing == {k \in 1..Len(leaves) :
                       \/ NameRejected(leaves[k])
                       \/ Cardinality({leaves[j] : j \in 1..k}) > MAX_VARIABLES}
    IN  IF failing = {} THEN NoError
        ELSE IF NameRejected(leaves[SetMin(failing)])
        THEN InvalidVariableName(leaves[SetMin(failing)])
        ELSE TooManyVariables(MAX_VARIABLES + 1, MAX_VARIABLES)

\* the error the call has to return, NoError if every input tree is valid
InputError ==
    IF FirstError(left) # NoError THEN FirstError(left)
    ELSE IF op = "check_equivalence" THEN FirstError(right)
    ELSE NoError

ValidationBeforeEvaluation ==
    (pc = "done" /\ op \in ValidatingOperations) =>
        /\ InputError # NoError => result = Err(InputError)
        /\ InputError = NoError => result.status # "Err"
        /\ result.status = "Err" =>
               result.err.kind \in {"InvalidVariableName", "TooManyVariables"}

\* an error arises in the step that enters the call
ErrorAtEntry ==
    (op' \in ValidatingOperations /\ result'.status = "Err") => pc = "idle"

ValidationFirst == []ValidationBeforeEvaluation /\ [][ErrorAtEntry]_vars

\* check_equivalence of two invalid trees with different errors has
\* returned the error of the left one
ValidationFirstWitness ==
    /\ Returned("check_equivalence")
    /\ FirstError(left) # NoError
    /\ FirstError(right) # NoError
    /\ FirstError(left) # FirstError(right)
    /\ result = Err(FirstError(left))

(***************************************************************************)
(* C19  The Reduction returned by reduce_expression(E) has original equal  *)
(* to E, whether the reduced tree is a sentinel, the minimizer's tree or E *)
(* itself, and no step of the call changes the input tree.                 *)
(***************************************************************************)
OriginalIsInput == ReturnedOk("reduce_expression") => result.original = left

\* from the entry of the call to its return the input tree stays as it is
InputUntouched == (op = "reduce_expression" /\ pc # "idle") => (pc = "done" \/ left' = left)

OriginalPreserved == []OriginalIsInput /\ [][InputUntouched]_vars

\* a reduction by the minimizer whose reduced tree differs from the input
\* and whose original is the input
OriginalPreservedWitness ==
    /\ ReturnedOk("reduce_expression")
    /\ qm # NoQm
    /\ Len(selected_implicants) >= 2
    /\ result.reduced # left
    /\ result.original = left

(***************************************************************************)
(* C20  Parser::parse reads its tokens with the precedence NOT > AND > OR  *)
(* > implication (XOR between AND and OR): the tree of a successful parse  *)
(* has the tokens of the input, parentheses apart, as its leaves and       *)
(* operators in order; without parentheses no operand binds less tightly   *)
(* than the operator above it; a parenthesised expression is one operand,  *)
(* whatever its operator; a successful parse has consumed every token up   *)
(* to the end of input, so a token left after a complete expression makes  *)
(* parse fail.  The inputs of the parser's tests give the trees expected   *)
(* there.                                                                  *)
(***************************************************************************)
\* how tightly a node binds
Binding(e) ==
    CASE e.op = "Implication" -> 1
      [] e.op = "Or" -> 2
      [] e.op = "Xor" -> 3
      [] e.op = "And" -> 4
      [] e.op = "Not" -> 5
      [] e.op = "Identifier" -> 6

\* no operand binds less tightly than the operator it is an operand of
RECURSIVE RespectsPrecedence(_)
RespectsPrecedence(e) ==
    IF e.op = "Identifier" THEN TRUE
    ELSE IF e.op = "Not" THEN Binding(e.e) >= Binding(e) /\ RespectsPrecedence(e.e)
    ELSE /\ Binding(e.l) >= Binding(e)
         /\ Binding(e.r) >= Binding(e)
         /\ RespectsPrecedence(e.l)
         /\ RespectsPrecedence(e.r)

\* the tokens of a tree written without parentheses
RECURSIVE Yield(_)
Yield(e) ==
    IF e.op = "Identifier" THEN <<IdentifierToken(e.name)>>
    ELSE IF e.op = "Not" THEN <<Token("Not")>> \o Yield(e.e)
    ELSE Yield(e.l) \o <<Token(e.op)>> \o Yield(e.r)

\* the tokens of a tree written with every operand in parentheses
RECURSIVE Parenthesised(_)
Parenthesised(e) ==
    LET operand(x) == <<Token("LeftParen")>> \o Parenthesised(x) \o <<Token("RightParen")>>
    IN  IF e.op = "Identifier" THEN <<IdentifierToken(e.name)>>
        ELSE IF e.op = "Not" THEN <<Token("Not")>> \o operand(e.e)
        ELSE operand(e.l) \o <<Token(e.op)>> \o operand(e.r)

IsWord(tok) == tok.token \notin {"LeftParen", "RightParen", "Eof"}

ParsedAs(toks, expr) ==
    tokens = Append(toks, Eof) => (result.status = "Ok" /\ result.expr = expr)

ParserPrecedence ==
    Returned("parse") =>
        /\ result.status = "Ok" =>
               /\ Yield(result.expr) = SelectSeq(tokens, IsWord)
               /\ SelectSeq(tokens, IsWord) \o <<Eof>> = tokens =>
                      RespectsPrecedence(result.expr)
               /\ parse(Append(Parenthesised(result.expr), Eof)).ok
               /\ parse(Append(Parenthesised(result.expr), Eof)).expr = result.expr
               /\ result.current = Len(tokens) - 1
        /\ ParsedAs(OrAndTokens, Or(Identifier(NameA), And(Identifier(NameB), Identifier(NameC))))
        /\ ParsedAs(NotAndTokens, And(Not(Identifier(NameA)), Identifier(NameB)))
        /\ ParsedAs(AndImplOrTokens,
                    Implication(And(Identifier(NameA), Identifier(NameB)),
                                Or(Identifier(NameC), Identifier(NameD))))
        /\ ParsedAs(ParenLeftTokens, And(Or(Identifier(NameA), Identifier(NameB)), Identifier(NameC)))
        /\ ParsedAs(ParenRightTokens, And(Identifier(NameA), Or(Identifier(NameB), Identifier(NameC))))
        /\ tokens = Append(TrailingTokens, Eof) =>
               /\ result.status = "Err"
               /\ result.err.kind = "UnexpectedToken"
               /\ result.err.found = TokC

\* "a and b -> c or d" has been parsed as Implication(And(a, b), Or(c, d))
ParserPrecedenceWitness ==
    /\ Returned("parse")
    /\ tokens = Append(AndImplOrTokens, Eof)
    /\ result.status = "Ok"
    /\ result.expr.op = "Implication"
    /\ result.expr.l.op = "And"
    /\ result.expr.r.op = "Or"

(***************************************************************************)
(* C21  Implication is right-associative in the parser: whenever parse     *)
(* returns for the tokens of "x -> y -> z" (x, y, z identifiers), the tree *)
(* is Implication(x, Implication(y, z)); in particular "a -> b -> c"       *)
(* parses as Implication(a, Implication(b, c)).                            *)
(***************************************************************************)
\* the tokens are those of "x -> y -> z" followed by Eof
IsImplicationChain(toks) ==
    /\ Len(toks) = 6
    /\ \A k \in {1, 3, 5} : toks[k].token = "Identifier"
    /\ toks[2] = Token("Implication") /\ toks[4] = Token("Implication")
    /\ toks[6] = Eof

ImplicationRightAssociative ==
    (Returned("parse") /\ IsImplicationChain(tokens)) =>
        /\ result.status = "Ok"
        /\ result.expr = Implication(Identifier(tokens[1].name),
                                     Implication(Identifier(tokens[3].name),
                                                 Identifier(tokens[5].name)))

(***************************************************************************)
(* C22  Minterm::combine(x, y) returns a result iff the two vectors have   *)
(* equal length, differ in exactly one position, that position holds True  *)
(* on one side and False on the other, and every other position is         *)
(* identical; the result then has DontCare at the differing position, the  *)
(* common value everywhere else, and covered_minterms equal to the union   *)
(* of both covered sets. In every other case it returns no result.         *)
(***************************************************************************)
\* the positions at which two vectors of equal length differ
Differing(x, y) == {k \in 1..Len(x.bits) : x.bits[k] # y.bits[k]}

\* d is the one position at which x and y differ, with True against False
SingleLiteralFlip(x, y, d) ==
    /\ Differing(x, y) = {d}
    /\ {x.bits[d], y.bits[d]} = {Some(TRUE), Some(FALSE)}

CombineContract ==
    Returned("combine") =>
        LET x == operands[1]
            y == operands[2]
            combinable == /\ Len(x.bits) = Len(y.bits)
                          /\ \E d \in 1..Len(x.bits) : SingleLiteralFlip(x, y, d)
        IN  /\ result.combined.some <=> combinable
            /\ result.combined.some =>
                   LET c == result.combined.value
                   IN  /\ Len(c.bits) = Len(x.bits)
                       /\ \A k \in 1..Len(x.bits) :
                              IF SingleLiteralFlip(x, y, k)
                              THEN c.bits[k] = None
                              ELSE c.bits[k] = x.bits[k] /\ c.bits[k] = y.bits[k]
                       /\ c.covered_minterms = x.covered_minterms \cup y.covered_minterms

\* two vectors with a common DontCare position and different covered sets
\* have been combined
CombineContractWitness ==
    /\ Returned("combine")
    /\ result.combined.some
    /\ \E k \in 1..Len(operands[1].bits) :
           operands[1].bits[k] = None /\ operands[2].bits[k] = None
    /\ operands[1].covered_minterms # operands[2].covered_minterms
    /\ ~(operands[2].covered_minterms \subseteq operands[1].covered_minterms)

(***************************************************************************)
(* C23  For every non-empty ON-set over n >= 1 variables,                  *)
(* find_prime_implicants returns exactly the prime implicants of the       *)
(* ON-set: every returned vector is an implicant (all minterms matching it *)
(* are in the ON-set) from which no literal can be dropped, every prime    *)
(* implicant of the ON-set is returned, and no vector is returned twice.   *)
(* Comparing only groups whose True-counts are k and k + 1 loses no        *)
(* combinable pair: in every round the implicants emitted as prime are     *)
(* those that combine with no implicant of the generation at all.          *)
(***************************************************************************)
\* the minterm indices over n variables that a literal vector matches:
\* position k speaks of bit n - k of the index
Matching(bits, n) ==
    {i \in 0..(Pow2(n) - 1) :
        \A k \in 1..n : bits[k] = None \/ bits[k] = Some(BitSet(i, n - k))}

IsImplicant(bits, on_set, n) == Matching(bits, n) \subseteq on_set

IsPrimeImplicant(bits, on_set, n) ==
    /\ IsImplicant(bits, on_set, n)
    /\ \A k \in 1..n :
           bits[k] # None => ~IsImplicant([bits EXCEPT ![k] = None], on_set, n)

PrimeVectors(on_set, n) ==
    {bits \in [1..n -> {None, Some(TRUE), Some(FALSE)}] : IsPrimeImplicant(bits, on_set, n)}

\* find_prime_implicants has returned in the call under way
PrimesReturned ==
    /\ qm # NoQm
    /\ \/ pc \in {"essential", "greedy", "done"}
       \/ pc = "find_prime_implicants" /\ current_implicants = <<>>

ExactlyThePrimes ==
    PrimesReturned =>
        /\ {prime_implicants[t].bits : t \in 1..Len(prime_implicants)}
               = PrimeVectors(qm.minterms, Len(qm.variables))
        /\ \A t, u \in 1..Len(prime_implicants) :
               prime_implicants[t].bits = prime_implicants[u].bits => t = u

\* the implicants of the generation that combine with no other one, in
\* whichever order the two are taken
Uncombinable(cur) ==
    {i \in 1..Len(cur) :
        \A j \in 1..Len(cur) : ~combine(cur[i], cur[j]).some /\ ~combine(cur[j], cur[i]).some}

NoPairLost ==
    (pc = "find_prime_implicants" /\ current_implicants # <<>>) =>
        /\ \A i, j \in 1..Len(current_implicants) :
               combine(current_implicants[i], current_implicants[j]).some =>
                   \/ count_ones(current_implicants[j]) = count_ones(current_implicants[i]) + 1
                   \/ count_ones(current_implicants[i]) = count_ones(current_implicants[j]) + 1
        /\ LET emitted == IndexSeq(Uncombinable(current_implicants))
           IN  prime_implicants' =
                   prime_implicants \o [t \in 1..Len(emitted) |-> current_implicants[emitted[t]]]

PrimeImplicantsExact == []ExactlyThePrimes /\ [][NoPairLost]_vars

\* find_prime_implicants has returned four or more prime implicants over
\* three variables, some of them with one DontCare position and some with
\* none or two
PrimeImplicantsExactWitness ==
    /\ PrimesReturned
    /\ Len(qm.variables) = 3
    /\ Len(prime_implicants) >= 4
    /\ \E t, u \in 1..Len(prime_implicants) :
           NoneCount(prime_implicants[t]) # NoneCount(prime_implicants[u])

(***************************************************************************)
(* C24  The essential phase of find_minimal_cover is exact: the implicants *)
(* it selects are exactly the essential prime implicants (those that are   *)
(* the only prime implicant covering some ON-set minterm), each selected   *)
(* once; every selected implicant is removed from the candidates and all   *)
(* its covered minterms are removed from the uncovered set; and it stops   *)
(* only after a full pass that selects nothing.                            *)
(***************************************************************************)
\* the positions in prime_implicants of the essential prime implicants
EssentialPrimes ==
    {t \in 1..Len(prime_implicants) :
        \E m \in qm.minterms :
            \A u \in 1..Len(prime_implicants) :
                m \in prime_implicants[u].covered_minterms <=> u = t}

IsEssential(implicant) ==
    \E t \in EssentialPrimes : prime_implicants[t] = implicant

CoveredBy(implicants) ==
    UNION {implicants[t].covered_minterms : t \in 1..Len(implicants)}

\* a pass of the essential loop removes what it selects
EssentialPassStep ==
    pc = "essential" =>
        /\ pc' \in {"essential", "greedy"}
        /\ SubSeq(selected_implicants', 1, Len(selected_implicants)) = selected_implicants
        /\ RemovedExactlySelected
        /\ uncovered_minterms' = uncovered_minterms \ CoveredBy(NewlySelected)
        /\ pc' = "essential" <=> NewlySelected # <<>>

\* what the essential loop leaves behind when it breaks
EssentialPhaseEnd ==
    (pc = "essential" /\ pc' = "greedy") =>
        LET NotEssential(implicant) == ~IsEssential(implicant)
        IN  /\ Range(selected_implicants') =
                   {prime_implicants[t] : t \in EssentialPrimes}
            /\ Len(selected_implicants') = Cardinality(EssentialPrimes)
            /\ available_implicants' = SelectSeq(prime_implicants, NotEssential)
            /\ uncovered_minterms' = qm.minterms \ CoveredBy(selected_implicants')

EssentialPhaseExact == [][EssentialPassStep /\ EssentialPhaseEnd]_vars

\* the essential loop has ended with two or more essential prime implicants
\* selected, other candidates left and minterms still uncovered
EssentialPhaseExactWitness ==
    /\ pc = "greedy"
    /\ Cardinality(EssentialPrimes) >= 2
    /\ Len(selected_implicants) = Cardinality(EssentialPrimes)
    /\ \A t \in 1..Len(selected_implicants) : IsEssential(selected_implicants[t])
    /\ uncovered_minterms # {}
    /\ Len(available_implicants) >= 2

(***************************************************************************)
(* C25  In each step of the greedy phase the selected candidate covers the *)
(* greatest number of still-uncovered minterms among the remaining         *)
(* candidates, and when several candidates tie for that greatest number    *)
(* the one that comes first in candidate order is selected.                *)
(***************************************************************************)
\* the number of still-uncovered minterms a candidate covers
Gain(implicant) == Cardinality(implicant.covered_minterms \cap uncovered_minterms)

\* the positions of the candidates that cover the greatest number
BestCandidates ==
    {i \in 1..Len(available_implicants) :
        \A j \in 1..Len(available_implicants) :
            Gain(available_implicants[j]) <= Gain(available_implicants[i])}

\* the step is a step of the greedy loop
IsGreedyStep == pc = "greedy" /\ pc' = "greedy" /\ Len(NewlySelected) = 1

GreedyPicksFirstMaximum ==
    [][IsGreedyStep =>
          /\ \E i \in BestCandidates : NewlySelected[1] = available_implicants[i]
          /\ NewlySelected[1] = available_implicants[SetMin(BestCandidates)]]_vars

(***************************************************************************)
(* C26  Reconstruction: each selected implicant becomes a left-nested      *)
(* conjunction of its literals in sorted-variable position order (True ->  *)
(* Identifier(v), False -> Not(Identifier(v)), DontCare -> omitted), and   *)
(* the result of minimize is the left-nested disjunction of these          *)
(* conjunctions in selection order (a single term is returned without an   *)
(* Or node); literal position p always refers to the same variable that    *)
(* bit position p referred to when the ON-set was built: a term is true    *)
(* under exactly the assignments of the minterms its implicant matches.    *)
(* An implicant without any literal (the only one selected when the        *)
(* ON-set is everything) has no conjunction; minimize then has no result.  *)
(***************************************************************************)
\* op(op(op(s[1], s[2]), s[3]), ...) of a non-empty sequence of trees
RECURSIVE LeftNested(_, _)
LeftNested(o, s) ==
    IF Len(s) = 1 THEN s[1]
    ELSE Binary(o, LeftNested(o, SubSeq(s, 1, Len(s) - 1)), s[Len(s)])

\* the literal of position p of an implicant over the variables of the call
LiteralAt(implicant, p) ==
    IF implicant.bits[p] = Some(TRUE) THEN Identifier(qm.variables[p])
    ELSE Not(Identifier(qm.variables[p]))

\* the conjunction an implicant with at least one literal stands for
TermOf(implicant) ==
    LET positions == IndexSeq({p \in 1..Len(implicant.bits) : implicant.bits[p] # None})
    IN  LeftNested("And", [t \in 1..Len(positions) |-> LiteralAt(implicant, positions[t])])

HasLiteral(implicant) == \E p \in 1..Len(implicant.bits) : implicant.bits[p] # None

\* minimize has returned from its last line, implicants_to_expression
Reconstructed == pc = "done" /\ qm # NoQm /\ result.status = "Ok"

\* the Option<Expr> that minimize returned: reduce_expression stores the
\* tree of a Some in `reduced`, and it calls minimize on no tautology
Minimized ==
    IF op = "minimize" THEN result.minimized ELSE SomeExpr(result.reduced)

Reconstruction ==
    Reconstructed =>
        LET with_literals == SelectSeq(selected_implicants, HasLiteral)
            terms == [t \in 1..Len(with_literals) |-> TermOf(with_literals[t])]
        IN  /\ Minimized.some <=> terms # <<>>
            /\ Minimized.some => Minimized.value = LeftNested("Or", terms)
            /\ \A t \in 1..Len(terms) :
                   {i \in 0..(Pow2(Len(qm.variables)) - 1) :
                       evaluate_expression(terms[t], MsbAssignment(qm.variables, i))}
                       = Matching(with_literals[t].bits, Len(qm.variables))

\* a result of three terms has been returned, one of them with three
\* literals and one with fewer
ReconstructionWitness ==
    /\ Reconstructed
    /\ Len(selected_implicants) = 3
    /\ \E t, u \in 1..3 :
           /\ NoneCount(selected_implicants[t]) = 0
           /\ NoneCount(selected_implicants[u]) = 1
    /\ Len(qm.variables) = 3
    /\ Minimized.some

(***************************************************************************)
(* C27  Cover completeness: for every non-empty ON-set, when               *)
(* find_minimal_cover returns, the union of covered_minterms over the      *)
(* selected implicants equals the ON-set exactly; the greedy loop always   *)
(* ends with the uncovered set empty, never because candidates ran out,    *)
(* and every implicant it picks covers at least one minterm that was       *)
(* uncovered at that moment.                                               *)
(***************************************************************************)
\* find_minimal_cover has returned selected_implicants
CoverReturned == pc = "done" /\ qm # NoQm

CoverIsOnSet ==
    CoverReturned =>
        /\ result.status = "Ok"
        /\ CoveredBy(selected_implicants) = qm.minterms
        /\ uncovered_minterms = {}

CandidatesLast ==
    (pc = "greedy" /\ uncovered_minterms # {}) => available_implicants # <<>>

GreedyPickUseful == IsGreedyStep => Gain(NewlySelected[1]) >= 1

CoverComplete == []CoverIsOnSet /\ []CandidatesLast /\ [][GreedyPickUseful]_vars

\* find_minimal_cover has returned a cover of which the greedy loop picked
\* two implicants or more
CoverCompleteWitness ==
    /\ CoverReturned
    /\ Len(selected_implicants) >= Cardinality(EssentialPrimes) + 2
    /\ Cardinality(qm.minterms) < Pow2(Len(qm.variables))

(***************************************************************************)
(* C28  Idempotence of reduction: for every valid tree E with              *)
(* R = reduce_expression(E).reduced, reduce_expression(R).reduced is       *)
(* node-for-node identical to R (same terms, same literal order, same term *)
(* order), including when R is one of the sentinel trees.                  *)
(***************************************************************************)
\* the step-by-step call returns what reduce_expression computes
ReduceIsFunction ==
    Returned("reduce_expression") => result = reduce_expression(left)

ReducedIsFixpoint ==
    ReturnedOk("reduce_expression") =>
        Let(reduce_expression(result.reduced), LAMBDA again :
            /\ again.status = "Ok"
            /\ again.reduced = result.reduced)

IdempotentReduction == ReduceIsFunction /\ ReducedIsFixpoint

\* a reduction has returned a tree of two or more terms that is not a
\* sentinel and has fewer variables than the input
IdempotentReductionWitness ==
    /\ ReturnedOk("reduce_expression")
    /\ qm # NoQm
    /\ result.simplified
    /\ result.reduced.op = "Or"
    /\ result.reduced # TrueSentinel
    /\ Cardinality(IdentifiersOf(result.reduced)) < Cardinality(IdentifiersOf(left))
    /\ reduce_expression(result.reduced).reduced = result.reduced

(***************************************************************************)
(* C29  Implicant invariant: in every round r (counting from 0) of         *)
(* find_prime_implicants, every implicant of the working generation has    *)
(* exactly r DontCare positions and its covered_minterms is exactly the    *)
(* set of the 2^r minterm indices matching its literal vector, all of them *)
(* in the ON-set; hence two implicants with the same literal vector have   *)
(* the same covered set, and after the sort-and-dedup step no two          *)
(* implicants of the next generation share a literal vector. (The round    *)
(* number is not a value of the program: the first generation has no       *)
(* DontCare position and every round adds exactly one.)                    *)
(***************************************************************************)
InPrimeLoop == pc = "find_prime_implicants"

\* what holds of every implicant of a generation
GenerationWellFormed ==
    InPrimeLoop =>
        LET n == Len(qm.variables)
        IN  /\ \A t \in 1..Len(current_implicants) :
                   LET m == current_implicants[t]
                   IN  /\ Len(m.bits) = n
                       /\ NoneCount(m) = NoneCount(current_implicants[1])
                       /\ m.covered_minterms = Matching(m.bits, n)
                       /\ Cardinality(m.covered_minterms) = Pow2(NoneCount(m))
                       /\ m.covered_minterms \subseteq qm.minterms
            /\ \A t, u \in 1..Len(current_implicants) :
                   current_implicants[t].bits = current_implicants[u].bits => t = u

\* the implicants a round pushes to next_implicants, before sort and dedup:
\* equal vectors come with equal covered sets
PushedAgree ==
    InPrimeLoop =>
        \A p, q \in CombinablePairs(current_implicants) :
            LET x == combine(current_implicants[p[1]], current_implicants[p[2]]).value
                y == combine(current_implicants[q[1]], current_implicants[q[2]]).value
            IN  x.bits = y.bits => x.covered_minterms = y.covered_minterms

\* the generation of round 0 and the step from round r to round r + 1
RoundCount ==
    /\ (~InPrimeLoop /\ InPrimeLoop') =>
           \A t \in 1..Len(current_implicants') : NoneCount(current_implicants'[t]) = 0
    /\ (InPrimeLoop /\ InPrimeLoop' /\ current_implicants' # <<>>) =>
           /\ current_implicants # <<>>
           /\ \A t \in 1..Len(current_implicants') :
                  NoneCount(current_implicants'[t]) = NoneCount(current_implicants[1]) + 1

ImplicantInvariant == []GenerationWellFormed /\ []PushedAgree /\ [][RoundCount]_vars

\* the generation of round 2 over three variables holds two or more
\* implicants, each of them pushed more than once by round 1
ImplicantInvariantWitness ==
    /\ InPrimeLoop
    /\ Len(qm.variables) = 3
    /\ Len(current_implicants) >= 2
    /\ NoneCount(current_implicants[1]) = 2

(***************************************************************************)
(* C30  Cover-selection bookkeeping: throughout find_minimal_cover no      *)
(* implicant is ever selected twice, the selected list and the remaining   *)
(* candidate list are disjoint and together a subset of the prime          *)
(* implicants, the uncovered set only shrinks, and every minterm still     *)
(* uncovered is covered by at least one remaining candidate; as a          *)
(* consequence the essential loop reaches its fixpoint after one selecting *)
(* pass (the pass following a selecting pass selects nothing).             *)
(***************************************************************************)
InCover == pc \in {"essential", "greedy"}

NoRepeat(s) == \A t, u \in 1..Len(s) : s[t] = s[u] => t = u

\* the candidates that cover a minterm
Covering(m) ==
    {i \in 1..Len(available_implicants) : m \in available_implicants[i].covered_minterms}

CoverBookkeeping ==
    InCover =>
        /\ NoRepeat(selected_implicants)
        /\ NoRepeat(available_implicants)
        /\ Range(selected_implicants) \cap Range(available_implicants) = {}
        /\ Range(selected_implicants) \cup Range(available_implicants)
               \subseteq Range(prime_implicants)
        /\ uncovered_minterms \subseteq qm.minterms
        /\ \A m \in uncovered_minterms : Covering(m) # {}

\* after a pass has selected, no uncovered minterm has a single candidate
EssentialFixpoint ==
    (pc = "essential" /\ selected_implicants # <<>>) =>
        \A m \in uncovered_minterms : Cardinality(Covering(m)) >= 2

CoverStep ==
    InCover =>
        /\ uncovered_minterms' \subseteq uncovered_minterms
        /\ (pc = "essential" /\ NewlySelected # <<>>) =>
               /\ selected_implicants = <<>>
               /\ available_implicants = prime_implicants
        /\ (pc = "essential" /\ selected_implicants # <<>>) =>
               /\ NewlySelected = <<>>
               /\ pc' = "greedy"

CoverSelection ==
    []CoverBookkeeping /\ []EssentialFixpoint /\ [][CoverStep]_vars

\* the greedy loop has selected after the essential loop did, and candidates
\* are left over
CoverSelectionWitness ==
    /\ pc = "greedy"
    /\ EssentialPrimes # {}
    /\ Len(selected_implicants) > Cardinality(EssentialPrimes)
    /\ available_implicants # <<>>

====
